---- MODULE Spec2Model ----
(***************************************************************************)
(* State-machine model of the MobyGames scraping client                    *)
(* (src/resources/lib/scraper.py): the platform mapping, the 429 retry     *)
(* protocol of _retrieve_URL_as_JSON, the disk-cache checked metadata and  *)
(* asset retrieval, and the session-wide disabled flag.                    *)
(*                                                                         *)
(* Every public method is one action.  What the network, the user prompt   *)
(* and the file system answer during a call is an input of the action: a   *)
(* script of responses, one per GET the call may issue.                    *)
(***************************************************************************)
EXTENDS Integers, Sequences, FiniteSets, TLC

VARIABLES
    api_key,            \* self.api_key
    scraper_disabled,   \* self.scraper_disabled
    cache_key,          \* self.cache_key
    candidate,          \* self.candidate
    disk_caches,        \* self.disk_caches[namespace][cache key]
    status_dic,         \* the status dictionary the caller hands to every call
    clock,              \* seconds since self.last_http_call and since the last outbound call
    last                \* observation: the last public call, its result and what it issued

vars ==
    <<api_key, scraper_disabled, cache_key, candidate, disk_caches, status_dic, clock, last>>

-----------------------------------------------------------------------------
(* Bounds of the model.                                                    *)

\* Scraper.RETRY_THRESHOLD is read at scraper.py:649; its value is set in the
\* akl base class, so the model treats it as a parameter.
RETRY_THRESHOLD == 2

\* Most rate-limit waits a response script of the session starts with.
MaxWaits == 0

\* Elapsed times are told apart up to this many seconds.
MaxIdle == 6

-----------------------------------------------------------------------------
(* Python values.  An int and a str never compare equal, whatever they     *)
(* hold; a str of decimal digits is represented by the number it spells.   *)

PyInt(n) == [t |-> "int", v |-> n]
PyStr(n) == [t |-> "str", v |-> n]
NoValue == [t |-> "none", v |-> 0]

PyEq(a, b) == a.t = b.t /\ a.v = b.v

\* '{}'.format(x)
Format(x) == PyStr(x.v)

-----------------------------------------------------------------------------
(* Platform mapping, scraper.py:692-816.                                   *)

DEFAULT_PLAT_MOBYGAMES == 0

\* The forward table in source order, as <<compact name, MobyGames code>>.
AKL_compact_platform_MobyGames_items == <<
    <<"3do", 35>>, <<"cpc", 60>>, <<"a2600", 28>>, <<"a5200", 33>>, <<"a7800", 34>>,
    <<"atari-8bit", 39>>, <<"jaguar", 17>>, <<"jaguarcd", 17>>, <<"lynx", 18>>,
    <<"atari-st", 24>>, <<"wswan", 48>>, <<"wswancolor", 49>>, <<"loopy", 124>>,
    <<"pv1000", 125>>, <<"cvision", 29>>, <<"c16", 115>>, <<"c64", 27>>, <<"amiga", 19>>,
    <<"cd32", 56>>, <<"cdtv", 83>>, <<"vic20", 43>>, <<"arcadia2001", 162>>,
    <<"avision", 210>>, <<"channelf", 76>>, <<"fmtmarty", 102>>, <<"superacan", 110>>,
    <<"gp32", 108>>, <<"vectrex", 37>>, <<"odyssey2", 78>>, <<"mame", 143>>,
    <<"ivision", 30>>, <<"msdos", 2>>, <<"msx", 57>>, <<"msx2", 57>>, <<"windows", 3>>,
    <<"xbox", 13>>, <<"xbox360", 69>>, <<"xboxone", 142>>, <<"pce", 40>>, <<"pcecd", 45>>,
    <<"pcfx", 59>>, <<"sgx", 127>>, <<"n3ds", 101>>, <<"n64", 9>>, <<"n64dd", 9>>,
    <<"nds", 44>>, <<"ndsi", 87>>, <<"fds", 22>>, <<"gb", 10>>, <<"gba", 12>>,
    <<"gbcolor", 11>>, <<"gamecube", 14>>, <<"nes", 22>>, <<"pokemini", 152>>,
    <<"snes", 15>>, <<"switch", 203>>, <<"vb", 38>>, <<"wii", 82>>, <<"wiiu", 132>>,
    <<"ouya", 144>>, <<"g7400", 128>>, <<"studio2", 113>>, <<"32x", 21>>,
    <<"dreamcast", 8>>, <<"gamegear", 25>>, <<"sms", 26>>, <<"megadrive", 16>>,
    <<"megacd", 20>>, <<"pico", 103>>, <<"saturn", 23>>, <<"sg1000", 114>>,
    <<"x68k", 106>>, <<"spectrum", 41>>, <<"zx80", 118>>, <<"zx81", 119>>, <<"neocd", 54>>,
    <<"ngp", 52>>, <<"ngpcolor", 53>>, <<"psx", 6>>, <<"ps2", 7>>, <<"ps3", 81>>,
    <<"ps4", 141>>, <<"psp", 46>>, <<"psvita", 105>>, <<"tigergame", 50>>,
    <<"creativision", 212>>, <<"vflash", 189>>, <<"vsmile", 42>>, <<"supervision", 109>>
>>

MappedNames == {AKL_compact_platform_MobyGames_items[i][1] :
                    i \in DOMAIN AKL_compact_platform_MobyGames_items}

\* dict lookup d[key] of the forward table.
AKL_compact_platform_MobyGames_mapping ==
    [name \in MappedNames |->
        LET i == CHOOSE j \in DOMAIN AKL_compact_platform_MobyGames_items :
                     AKL_compact_platform_MobyGames_items[j][1] = name
        IN  AKL_compact_platform_MobyGames_items[i][2]]

MappedCodes == {AKL_compact_platform_MobyGames_items[i][2] :
                    i \in DOMAIN AKL_compact_platform_MobyGames_items}

\* The reverse table the loop at scraper.py:815-816 leaves: it visits the
\* items in order and assigns reverse[value] = key, so the last item that
\* carries a code is the one that stays.
ItemsWithCode(code) ==
    {i \in DOMAIN AKL_compact_platform_MobyGames_items :
        AKL_compact_platform_MobyGames_items[i][2] = code}

MobyGames_AKL_compact_platform_mapping ==
    [code \in MappedCodes |->
        LET last_item == CHOOSE i \in ItemsWithCode(code) :
                             \A j \in ItemsWithCode(code) : j <= i
        IN  AKL_compact_platform_MobyGames_items[last_item][1]]

\* akl.platforms: the compact names the registry knows beyond the table.  The
\* tests name 'Sega Genesis' as the aliased platform of 'Sega Mega Drive'
\* and 'mjhyewqr' as a platform the registry does not know.
PLATFORM_UNKNOWN_COMPACT == "unknown"
NoAlias == "-"

\* Two more entries stand for the other shapes an entry of the registry can
\* have: an alias of an alias, and an alias of a platform without a code.
AKL_platforms ==
    MappedNames \cup {"genesis", "alias-of-genesis", "alias-of-unknown",
                      PLATFORM_UNKNOWN_COMPACT}

aliasof(compact_name) ==
    CASE compact_name = "genesis" -> "megadrive"
      [] compact_name = "alias-of-genesis" -> "genesis"
      [] compact_name = "alias-of-unknown" -> PLATFORM_UNKNOWN_COMPACT
      [] OTHER -> NoAlias

\* Faulty variant: the alias is not looked at.
convert_AKL_platform_to_MobyGames_unaliased(compact_name) ==
    IF compact_name \in DOMAIN AKL_compact_platform_MobyGames_mapping
    THEN PyInt(AKL_compact_platform_MobyGames_mapping[compact_name])
    ELSE PyInt(DEFAULT_PLAT_MOBYGAMES)

convert_AKL_platform_to_MobyGames(compact_name) ==
    IF compact_name \in DOMAIN AKL_compact_platform_MobyGames_mapping
    THEN PyInt(AKL_compact_platform_MobyGames_mapping[compact_name])
    ELSE IF aliasof(compact_name) # NoAlias
            /\ aliasof(compact_name) \in DOMAIN AKL_compact_platform_MobyGames_mapping
         THEN PyInt(AKL_compact_platform_MobyGames_mapping[aliasof(compact_name)])
         ELSE PyInt(DEFAULT_PLAT_MOBYGAMES)

\* The argument is the value get_candidates passes on: the int returned above.
convert_MobyGames_platform_to_AKL_platform(moby_platform) ==
    IF moby_platform.t = "int"
       /\ moby_platform.v \in DOMAIN MobyGames_AKL_compact_platform_mapping
    THEN MobyGames_AKL_compact_platform_mapping[moby_platform.v]
    ELSE PLATFORM_UNKNOWN_COMPACT

-----------------------------------------------------------------------------
(* Text.  A str is the sequence of its characters.                         *)

UpperChars == <<"A", "B", "C", "D", "E", "F", "G", "H", "I", "J", "K", "L", "M", "N", "O", "P", "Q", "R", "S", "T", "U", "V", "W", "X", "Y", "Z">>
LowerChars == <<"a", "b", "c", "d", "e", "f", "g", "h", "i", "j", "k", "l", "m", "n", "o", "p", "q", "r", "s", "t", "u", "v", "w", "x", "y", "z">>

\* str.lower() of one character, then of a str.
LowerChar(c) ==
    IF \E i \in DOMAIN UpperChars : UpperChars[i] = c
    THEN LowerChars[CHOOSE i \in DOMAIN UpperChars : UpperChars[i] = c]
    ELSE c

Lower(s) == [i \in DOMAIN s |-> LowerChar(s[i])]

\* haystack.find(needle) != -1
Contains(haystack, needle) ==
    \E i \in 1..(Len(haystack) - Len(needle) + 1) :
        SubSeq(haystack, i, i + Len(needle) - 1) = needle

\* urllib.parse.quote_plus on letters and spaces: a space becomes '+'.
quote_plus(s) == [i \in DOMAIN s |-> IF s[i] = " " THEN "+" ELSE s[i]]

-----------------------------------------------------------------------------
(* Class constants, scraper.py:60-85.                                      *)

supported_asset_list ==
    {"ASSET_TITLE_ID", "ASSET_SNAP_ID", "ASSET_BOXFRONT_ID", "ASSET_BOXBACK_ID",
     "ASSET_CARTRIDGE_ID"}

\* asset_name_mapping as <<scan type, asset kind>>; "None" is Python's None.
asset_name_mapping_items == <<
    <<<<"f", "r", "o", "n", "t", " ", "c", "o", "v", "e", "r">>, "ASSET_BOXFRONT_ID">>,
    <<<<"b", "a", "c", "k", " ", "c", "o", "v", "e", "r">>, "ASSET_BOXBACK_ID">>,
    <<<<"m", "e", "d", "i", "a">>, "ASSET_CARTRIDGE_ID">>,
    <<<<"m", "a", "n", "u", "a", "l">>, "ASSET_MANUAL_ID">>,
    <<<<"s", "p", "i", "n", "e", "/", "s", "i", "d", "e", "s">>, "None">>,
    <<<<"o", "t", "h", "e", "r">>, "None">>,
    <<<<"a", "d", "v", "e", "r", "t", "i", "s", "e", "m", "e", "n", "t">>, "None">>,
    <<<<"e", "x", "t", "r", "a", "s">>, "None">>,
    <<<<"i", "n", "s", "i", "d", "e", " ", "c", "o", "v", "e", "r">>, "None">>,
    <<<<"f", "u", "l", "l", " ", "c", "o", "v", "e", "r">>, "None">>,
    <<<<"s", "o", "u", "n", "d", "t", "r", "a", "c", "k">>, "None">>,
    <<<<"m", "a", "p">>, "ASSET_MAP_ID">>
>>

asset_name_mapping_keys ==
    {asset_name_mapping_items[i][1] : i \in DOMAIN asset_name_mapping_items}

asset_name_mapping(scan) ==
    asset_name_mapping_items[
        CHOOSE i \in DOMAIN asset_name_mapping_items : asset_name_mapping_items[i][1] = scan][2]

-----------------------------------------------------------------------------
(* URLs, scraper.py:83-85 and the url_tail of every request.               *)

NoText == <<>>

URL(ep, id, plat, title, key) ==
    [ep |-> ep, id |-> id, plat |-> plat, title |-> title, key |-> key]

\* scraper.py:288-296
SearchURL(key, search_term, scraper_platform) ==
    IF PyEq(scraper_platform, PyStr(0))
    THEN URL("games", NoValue, NoValue, quote_plus(search_term), key)
    ELSE URL("games", NoValue, Format(scraper_platform), quote_plus(search_term), key)

\* scraper.py:184-185
GameURL(key, cand) == URL("games/id", Format(cand.id), NoValue, NoText, key)

\* Faulty variant: the second request asks for the game record again.
GamePlatformURL_unscoped(key, cand) == URL("games/id", Format(cand.id), NoValue, NoText, key)

\* scraper.py:192-194
GamePlatformURL(key, cand) ==
    URL("games/id/platforms/p", Format(cand.id), Format(cand.scraper_platform), NoText, key)

\* scraper.py:537-538
ScreenshotsURL(key, cand, platform_id) ==
    URL("games/id/platforms/p/screenshots", Format(cand.id), Format(platform_id), NoText, key)

\* scraper.py:570-571
CoversURL(key, cand, platform_id) ==
    URL("games/id/platforms/p/covers", Format(cand.id), Format(platform_id), NoText, key)

\* scraper.py:276-277
PlatformsURL(key) == URL("platforms", NoValue, NoValue, NoText, key)

-----------------------------------------------------------------------------
(* The caller's status dictionary (kodi.new_status_dic) and how the base   *)
(* class reports an error in it.                                           *)

Msg(m, code, err) == [m |-> m, code |-> code, err |-> err]

new_status_dic == [status |-> TRUE, dialog |-> "NOTIFY", msg |-> Msg("ok", 0, "-")]

_handle_error(st, msg) == [status |-> FALSE, dialog |-> "NOTIFY_WARN", msg |-> msg]

_handle_exception(st, msg) == [status |-> FALSE, dialog |-> "NOTIFY_WARN", msg |-> msg]

-----------------------------------------------------------------------------
(* What the network and the user answer during one _retrieve_URL_as_JSON.  *)
(* A response is the HTTP code, the kind of body, and what the user picks  *)
(* if a prompt is shown for it.  A script holds the response to each GET.  *)

\* scraper.py:651, timedelta(seconds=960)
WINDOW_SECONDS == 960

\* scraper.py:269, self._wait_for_API_request(5000)
RETRY_DELAY_MS == 5000

\* The minimum interval between calls that _wait_for_API_request() keeps
\* when it is given no duration.
DEFAULT_WAIT_MS == 1000

\* delay: the seconds the user takes to answer the prompt.
Response(code, body, choice) ==
    [code |-> code, body |-> body, choice |-> choice, delay |-> 0]

Delayed(resp, delay) == [resp EXCEPT !.delay = delay]

\* body: "json" valid JSON, "json_msg" valid JSON with a 'message' key,
\* "garbage" not JSON, "none" no body at all (net.get_URL returned None).
Wait429 == Response(429, "json_msg", "wait")

Ok200 == Response(200, "json", "wait")
Cancel429 == Response(429, "json_msg", "cancel")

Finals ==
    {Ok200, Response(200, "garbage", "wait"), Response(200, "none", "wait"),
     Response(404, "json_msg", "wait"), Response(404, "garbage", "wait"),
     Response(401, "json", "wait"), Response(500, "none", "wait"),
     Wait429, Response(429, "garbage", "wait"), Cancel429}

ScriptLen == RETRY_THRESHOLD + 2

Script(k, final) == [i \in 1..ScriptLen |-> IF i <= k THEN Wait429 ELSE final]

\* The user answers at once, when the window has just elapsed, or later.
AnswerDelays == {0, WINDOW_SECONDS, WINDOW_SECONDS + 2}

SlowScript(k, final, delay) ==
    [i \in 1..ScriptLen |-> IF i <= k THEN Delayed(Wait429, delay) ELSE final]

Scripts ==
    {SlowScript(k, f, d) : k \in 0..(ScriptLen - 1), f \in Finals, d \in AnswerDelays}

\* The scripts of the session: a success, a failure the call reports and a
\* cancel at once, and a success after rate-limit waits.
SessionScripts ==
    {Script(0, f) : f \in {Ok200, Response(404, "json_msg", "wait"), Cancel429}}
    \cup {Script(k, Ok200) : k \in 1..MaxWaits}

-----------------------------------------------------------------------------
(* Outbound calls and prompts of one public call, in order.                *)

NoURL == URL("-", NoValue, NoValue, NoText, "")

\* An event: ms is the duration handed over (to the wait, or to the prompt as
\* its timer), took the seconds the user took to answer.
Ev(e, url, retry, code, arg, ms, took) ==
    [e |-> e, url |-> url, retry |-> retry, code |-> code, arg |-> arg, ms |-> ms,
     took |-> took]

\* self._wait_for_API_request(...); arg tells which duration it was given.
WaitEv(arg) ==
    Ev("wait", NoURL, 0, 0, arg,
       IF arg = "5000" THEN RETRY_DELAY_MS ELSE DEFAULT_WAIT_MS, 0)
\* self._wait_for_API_request(amount_seconds * 1000), scraper.py:660
WindowWaitEv(ms) == Ev("wait", NoURL, 0, 0, "window", ms, 0)
\* net.get_URL(url, ...), the HTTP code and the kind of body it returned.
GetEv(url, retry, code, body) == Ev("get", url, retry, code, body, 0, 0)
\* self.last_http_call = datetime.now(), scraper.py:627
StampEv == Ev("stamp", NoURL, 0, 0, "-", 0, 0)
\* kodi.dialog_yesno_timer(...), its timer and what the user picked.
PromptEv(url, retry, choice, timer_ms, took) ==
    Ev("prompt", url, retry, 0, choice, timer_ms, took)
\* net.download_img(...), the n-th of the call.
DownloadEv(n) == Ev("download", NoURL, n, 0, "-", 0, 0)

Gets(log) == SelectSeq(log, LAMBDA ev : ev.e = "get")
Prompts(log) == SelectSeq(log, LAMBDA ev : ev.e = "prompt")
Downloads(log) == SelectSeq(log, LAMBDA ev : ev.e = "download")
Outbound(log) == SelectSeq(log, LAMBDA ev : ev.e \in {"get", "download"})

-----------------------------------------------------------------------------
(* _retrieve_URL_as_JSON, scraper.py:624-686.                              *)
(* payload is what json.loads gives for a valid body of a 200 response.    *)

None == [kind |-> "None"]

Retrieved(json, st, disabled, log) ==
    [json |-> json, status |-> st, disabled |-> disabled, log |-> log]

\* scraper.py:649
\* Faulty variant: one retry too many.
MayRetry_inclusive(http_code, retry) == http_code = 429 /\ retry <= RETRY_THRESHOLD

\* Faulty variant: every failed request is put to the user.
MayRetry_any(http_code, retry) == http_code # 200 /\ retry < RETRY_THRESHOLD

MayRetry(http_code, retry) == http_code = 429 /\ retry < RETRY_THRESHOLD

\* Faulty variant: the body is taken to hold a message whatever it is.
error_msg_undecoded(resp) == "api"

\* scraper.py:641-646
error_msg(resp) == IF resp.body = "json_msg" THEN "api" ELSE "generic"

\* scraper.py:657, the timer given to the prompt; elapsed is the whole
\* seconds from the computation of wait_till_time to this datetime.now().
auto_timer_ms(elapsed) == (elapsed - WINDOW_SECONDS) * 1000

\* scraper.py:659, (datetime.now() - wait_till_time).total_seconds()
amount_seconds(elapsed) == elapsed - WINDOW_SECONDS

\* Faulty variant: a cancel that fails the call without asking for the
\* cancel dialog.
Cancelled_silent(st) == [st EXCEPT !.status = FALSE]

\* scraper.py:665-668
Cancelled(st) == [st EXCEPT !.status = FALSE, !.dialog = "CANCEL"]

\* dis is self.scraper_disabled when the call starts; the result carries the
\* flag as the call leaves it.
RECURSIVE _retrieve_URL_as_JSON(_, _, _, _, _, _)
_retrieve_URL_as_JSON(dis, url, st, script, payload, retry) ==
    LET resp == script[retry + 1]
        get == <<WaitEv("default"), GetEv(url, retry, resp.code, resp.body), StampEv>>
        prompt == <<PromptEv(url, retry, resp.choice, auto_timer_ms(0), resp.delay)>>
    IN  IF resp.code # 200
        THEN IF MayRetry(resp.code, retry)
             THEN IF resp.choice = "wait"
                  THEN LET again == _retrieve_URL_as_JSON(dis, url, st, script, payload,
                                                          retry + 1)
                       IN  [again EXCEPT
                               !.log = get \o prompt
                                      \o <<WindowWaitEv(amount_seconds(resp.delay) * 1000)>>
                                      \o again.log]
                  ELSE Retrieved(None, Cancelled(st), TRUE, get \o prompt)
             ELSE Retrieved(None, _handle_error(st, Msg("http", resp.code, error_msg(resp))),
                            dis, get)
        ELSE IF resp.body = "none"
             THEN Retrieved(None, _handle_error(st, Msg("network", 0, "-")), dis, get)
             ELSE IF resp.body = "garbage"
                  THEN Retrieved(None, _handle_exception(st, Msg("json", 0, "-")), dis, get)
                  ELSE Retrieved(payload, st, dis, get)

-----------------------------------------------------------------------------
(* Inputs of the calls.                                                    *)

\* The ROMs of the library with their platform; set_candidate makes the
\* cache key from the two.
Library == {<<"rom1", "jaguar">>, <<"rom2", "genesis">>}
NoKey == <<"-", "-">>

SearchPlatforms == {"jaguar", "genesis", PLATFORM_UNKNOWN_COMPACT}

SearchTerm == <<"a", " ", "b">>

\* Games of the remote catalog: one whose title equals the search term up to
\* case, one that contains it, one that does neither.
Games ==
    {[game_id |-> 1, title |-> <<"A", " ", "B">>],
     [game_id |-> 2, title |-> <<"a", " ", "b", "c">>],
     [game_id |-> 3, title |-> <<"c">>]}

Game(id) == CHOOSE g \in Games : g.game_id = id

\* json_data['games'] of the search responses of the session.
SessionGameLists == {<<>>, <<Game(3), Game(1)>>}

CandidateIds == {1}

Text_http_1 == <<"h", "t", "t", "p", ":", "1">>
Text_http_2 == <<"h", "t", "t", "p", ":", "2">>
Text_https_3 == <<"h", "t", "t", "p", "s", ":", "3">>
Text_https_4 == <<"h", "t", "t", "p", "s", ":", "4">>

ScreenshotsPayload ==
    [kind |-> "json",
     screenshots |->
        <<[caption |-> <<"T", "i", "t", "l", "e">>, image |-> Text_http_1],
          [caption |-> <<"m", "a", "p">>, image |-> Text_http_2]>>]

CoversPayload ==
    [kind |-> "json",
     cover_groups |->
        <<[countries |-> <<"jp">>,
           covers |-> <<[scan_of |-> <<"F", "r", "o", "n", "t", " ", "C", "o", "v", "e", "r">>,
                         image |-> Text_https_3]>>],
          [countries |-> <<"us">>,
           covers |-> <<[scan_of |-> <<"B", "a", "c", "k", " ", "C", "o", "v", "e", "r">>,
                         image |-> Text_https_4]>>]>>]

AssetKinds == {"ASSET_TITLE_ID", "ASSET_BOXFRONT_ID"}

-----------------------------------------------------------------------------
(* The disk cache of the base class: namespace -> cache key -> value.      *)

CACHE_METADATA == "cache_metadata"
CACHE_INTERNAL == "cache_internal"
Namespaces == {CACHE_METADATA, CACHE_INTERNAL}

Absent == [kind |-> "absent"]

_check_disk_cache(caches, cache_type, key) == caches[cache_type][key].kind # "absent"

_retrieve_from_disk_cache(caches, cache_type, key) == caches[cache_type][key]

_update_disk_cache(caches, cache_type, key, data) ==
    IF data.kind = "absent" THEN caches ELSE [caches EXCEPT ![cache_type][key] = data]

-----------------------------------------------------------------------------
(* Results.                                                                *)

List(items) == [kind |-> "list", items |-> items]

\* _new_gamedata_dic(): every field at its default.
_new_gamedata_dic == [kind |-> "gamedata", scraped |-> FALSE, id |-> NoValue]

\* What a public call did: its return value, the status dictionary after it,
\* self.scraper_disabled after it, its outbound calls and prompts, whether it
\* was served from the cache, and what it stored under the cache key.
Done(result, st, disabled, log, hit, store) ==
    [result |-> result, status |-> st, disabled |-> disabled, log |-> log,
     hit |-> hit, store |-> store]

-----------------------------------------------------------------------------
(* check_before_scraping, scraper.py:133-146.                              *)

\* Faulty variant: a configured key brings a disabled scraper back.
check_before_scraping_enabling(dis, key, st) ==
    IF key # ""
    THEN Done(None, st, FALSE, <<>>, FALSE, Absent)
    ELSE Done(None,
              [status |-> FALSE, dialog |-> "DIALOG", msg |-> Msg("apikey", 0, "-")],
              TRUE, <<>>, FALSE, Absent)

\* Faulty variant: the missing key is reported but the scraper stays enabled.
check_before_scraping_reporting(dis, key, st) ==
    IF key # ""
    THEN Done(None, st, dis, <<>>, FALSE, Absent)
    ELSE Done(None,
              [status |-> FALSE, dialog |-> "DIALOG", msg |-> Msg("apikey", 0, "-")],
              dis, <<>>, FALSE, Absent)

check_before_scraping(dis, key, st) ==
    IF key # ""
    THEN Done(None, st, dis, <<>>, FALSE, Absent)
    ELSE Done(None,
              [status |-> FALSE, dialog |-> "DIALOG", msg |-> Msg("apikey", 0, "-")],
              TRUE, <<>>, FALSE, Absent)

-----------------------------------------------------------------------------
(* get_candidates and _search_candidates, scraper.py:148-167, 286-326.     *)

\* Faulty variant: an equal title counts for one point only.
Score_flat(title, search_term) ==
    1 + (IF Lower(title) = Lower(search_term) THEN 1 ELSE 0)
      + (IF Contains(Lower(title), Lower(search_term)) THEN 1 ELSE 0)

\* scraper.py:314-320
Score(title, search_term) ==
    1 + (IF Lower(title) = Lower(search_term) THEN 2 ELSE 0)
      + (IF Contains(Lower(title), Lower(search_term)) THEN 1 ELSE 0)

\* scraper.py:306-321
Candidate(item, search_term, platform, scraper_platform) ==
    [id |-> PyInt(item.game_id),
     display_name |-> <<item.title,
                        convert_MobyGames_platform_to_AKL_platform(scraper_platform)>>,
     platform |-> platform,
     scraper_platform |-> scraper_platform,
     order |-> Score(item.title, search_term)]

\* Faulty variant: a sort that puts a candidate before those of equal order.
RECURSIVE SortByOrder_unstable(_)
SortByOrder_unstable(s) ==
    IF s = <<>> THEN <<>>
    ELSE LET init == SortByOrder_unstable(SubSeq(s, 1, Len(s) - 1))
             x == s[Len(s)]
             pos == Cardinality({i \in DOMAIN init : init[i].order > x.order})
         IN  SubSeq(init, 1, pos) \o <<x>> \o SubSeq(init, pos + 1, Len(init))

\* Faulty variant: a sort with the lowest order first.
RECURSIVE SortByOrder_ascending(_)
SortByOrder_ascending(s) ==
    IF s = <<>> THEN <<>>
    ELSE LET init == SortByOrder_ascending(SubSeq(s, 1, Len(s) - 1))
             x == s[Len(s)]
             pos == Cardinality({i \in DOMAIN init : init[i].order <= x.order})
         IN  SubSeq(init, 1, pos) \o <<x>> \o SubSeq(init, pos + 1, Len(init))

\* list.sort(key=order, reverse=True): stable, so a candidate goes behind
\* every candidate placed before it whose order is not smaller.
RECURSIVE SortByOrder(_)
SortByOrder(s) ==
    IF s = <<>> THEN <<>>
    ELSE LET init == SortByOrder(SubSeq(s, 1, Len(s) - 1))
             x == s[Len(s)]
             pos == Cardinality({i \in DOMAIN init : init[i].order >= x.order})
         IN  SubSeq(init, 1, pos) \o <<x>> \o SubSeq(init, pos + 1, Len(init))

_search_candidates(dis, key, st, search_term, platform, scraper_platform, script, games) ==
    LET r == _retrieve_URL_as_JSON(dis, SearchURL(key, search_term, scraper_platform), st,
                                   script, [kind |-> "json", games |-> games], 0)
    IN  IF ~r.status.status
        THEN Done(None, r.status, r.disabled, r.log, FALSE, Absent)
        ELSE Done(List(SortByOrder([i \in DOMAIN r.json.games |->
                            Candidate(r.json.games[i], search_term, platform,
                                      scraper_platform)])),
                  r.status, r.disabled, r.log, FALSE, Absent)

\* scraper.py:155-167
_get_candidates_enabled(dis, key, st, search_term, platform, script, games) ==
    LET scraper_platform == convert_AKL_platform_to_MobyGames(platform)
        found == _search_candidates(dis, key, st, search_term, platform, scraper_platform,
                                    script, games)
    IN  IF ~found.status.status THEN [found EXCEPT !.result = None] ELSE found

\* Faulty variant: a disabled scraper marks an error in status_dic.
get_candidates_marking(dis, key, st, search_term, platform, script, games) ==
    IF dis
    THEN Done(None, _handle_error(st, Msg("disabled", 0, "-")), dis, <<>>, FALSE, Absent)
    ELSE _get_candidates_enabled(dis, key, st, search_term, platform, script, games)

get_candidates(dis, key, st, search_term, platform, script, games) ==
    IF dis
    THEN Done(None, st, dis, <<>>, FALSE, Absent)
    ELSE _get_candidates_enabled(dis, key, st, search_term, platform, script, games)

-----------------------------------------------------------------------------
(* get_metadata, scraper.py:171-219.                                       *)

GamePayload(cand) == [kind |-> "json", game_id |-> cand.id]

\* scraper.py:202-213, the record built from the two responses.
ParseGamedata(json_data, extra_json_data) ==
    [kind |-> "gamedata", scraped |-> TRUE, id |-> json_data.game_id]

\* Faulty variant: the metadata cache is never consulted.
MetadataCacheHit_never(caches, ckey) == FALSE

\* scraper.py:178
MetadataCacheHit(caches, ckey) == _check_disk_cache(caches, CACHE_METADATA, ckey)

\* Faulty variant: the scraped metadata is returned but not put in the cache.
_get_metadata_miss_unstored(dis, key, cand, st, script1, script2) ==
    LET r1 == _retrieve_URL_as_JSON(dis, GameURL(key, cand), st, script1, GamePayload(cand), 0)
    IN  IF ~r1.status.status
        THEN Done(None, r1.status, r1.disabled, r1.log, FALSE, Absent)
        ELSE LET r2 == _retrieve_URL_as_JSON(r1.disabled, GamePlatformURL(key, cand),
                                             r1.status, script2, GamePayload(cand), 0)
                 gamedata == ParseGamedata(r1.json, r2.json)
             IN  IF ~r2.status.status
                 THEN Done(None, r2.status, r2.disabled, r1.log \o r2.log, FALSE, Absent)
                 ELSE Done(gamedata, r2.status, r2.disabled, r1.log \o r2.log, FALSE,
                           Absent)

\* Faulty variant: the record is put in the cache as soon as the first
\* request succeeded.
_get_metadata_miss_eager(dis, key, cand, st, script1, script2) ==
    LET r1 == _retrieve_URL_as_JSON(dis, GameURL(key, cand), st, script1, GamePayload(cand), 0)
    IN  IF ~r1.status.status
        THEN Done(None, r1.status, r1.disabled, r1.log, FALSE, Absent)
        ELSE LET r2 == _retrieve_URL_as_JSON(r1.disabled, GamePlatformURL(key, cand),
                                             r1.status, script2, GamePayload(cand), 0)
                 gamedata == ParseGamedata(r1.json, r2.json)
             IN  IF ~r2.status.status
                 THEN Done(None, r2.status, r2.disabled, r1.log \o r2.log, FALSE, gamedata)
                 ELSE Done(gamedata, r2.status, r2.disabled, r1.log \o r2.log, FALSE,
                           gamedata)

\* scraper.py:182-219
_get_metadata_miss(dis, key, cand, st, script1, script2) ==
    LET r1 == _retrieve_URL_as_JSON(dis, GameURL(key, cand), st, script1, GamePayload(cand), 0)
    IN  IF ~r1.status.status
        THEN Done(None, r1.status, r1.disabled, r1.log, FALSE, Absent)
        ELSE LET r2 == _retrieve_URL_as_JSON(r1.disabled, GamePlatformURL(key, cand),
                                             r1.status, script2, GamePayload(cand), 0)
                 gamedata == ParseGamedata(r1.json, r2.json)
             IN  IF ~r2.status.status
                 THEN Done(None, r2.status, r2.disabled, r1.log \o r2.log, FALSE, Absent)
                 ELSE Done(gamedata, r2.status, r2.disabled, r1.log \o r2.log, FALSE,
                           gamedata)

get_metadata(dis, key, ckey, cand, caches, st, script1, script2) ==
    IF dis
    THEN Done(_new_gamedata_dic, st, dis, <<>>, FALSE, Absent)
    ELSE IF MetadataCacheHit(caches, ckey)
    THEN Done(_retrieve_from_disk_cache(caches, CACHE_METADATA, ckey), st, dis, <<>>,
              TRUE, Absent)
    ELSE _get_metadata_miss(dis, key, cand, st, script1, script2)

-----------------------------------------------------------------------------
(* get_assets and the asset superset, scraper.py:226-245, 511-605.         *)

Asset(asset_ID, display_name, url) ==
    [asset_ID |-> asset_ID, display_name |-> display_name, url |-> url]

Text_title == <<"t", "i", "t", "l", "e">>

\* Faulty variant: the caption is searched as it is written.
SnapKind_cased(caption) ==
    IF Contains(caption, Text_title) THEN "ASSET_TITLE_ID" ELSE "ASSET_SNAP_ID"

\* scraper.py:551-555
SnapKind(caption) ==
    IF Contains(Lower(caption), Text_title) THEN "ASSET_TITLE_ID" ELSE "ASSET_SNAP_ID"

\* scraper.py:546-562
SnapRecords(screenshots) ==
    [i \in DOMAIN screenshots |->
        Asset(SnapKind(screenshots[i].caption), screenshots[i].caption, screenshots[i].image)]

\* scraper.py:540-566, with r the outcome of the request.
_parse_snap_assets(r) ==
    IF ~r.status.status
    THEN Done(None, r.status, r.disabled, r.log, FALSE, Absent)
    ELSE Done(List(SnapRecords(r.json.screenshots)), r.status, r.disabled, r.log,
              FALSE, Absent)

_retrieve_snap_assets(dis, key, cand, platform_id, st, script, payload) ==
    _parse_snap_assets(_retrieve_URL_as_JSON(dis, ScreenshotsURL(key, cand, platform_id),
                                             st, script, payload, 0))

\* The covers of all groups in the order the nested loops visit them.
RECURSIVE CoversInOrder(_)
CoversInOrder(cover_groups) ==
    IF cover_groups = <<>> THEN <<>>
    ELSE LET group_data == Head(cover_groups)
         IN  [i \in DOMAIN group_data.covers |->
                 [scan_of |-> group_data.covers[i].scan_of,
                  image |-> group_data.covers[i].image,
                  countries |-> group_data.countries]]
             \o CoversInOrder(Tail(cover_groups))

Unbound == "unbound"

\* scraper.py:584-601 after the first n covers: the local asset_ID, the
\* records so far, and whether reading asset_ID before any assignment raised.
RECURSIVE CoverRecords(_, _)
CoverRecords(covers, n) ==
    IF n = 0 THEN [asset_ID |-> Unbound, list |-> <<>>, raised |-> FALSE]
    ELSE LET prev == CoverRecords(covers, n - 1)
             image_data == covers[n]
             scan == Lower(image_data.scan_of)
             asset_ID == IF scan \in asset_name_mapping_keys
                         THEN asset_name_mapping(scan)
                         ELSE prev.asset_ID
         IN  IF prev.raised \/ asset_ID = Unbound
             THEN [prev EXCEPT !.raised = TRUE]
             ELSE [asset_ID |-> asset_ID,
                   list |-> Append(prev.list,
                                   Asset(asset_ID,
                                         <<image_data.scan_of, image_data.countries>>,
                                         image_data.image)),
                   raised |-> FALSE]

Raised == [kind |-> "raise"]

\* scraper.py:580-605, with parsed the outcome of the loops.
_cover_asset_list(r, parsed) ==
    IF parsed.raised
    THEN Done(Raised, r.status, r.disabled, r.log, FALSE, Absent)
    ELSE Done(List(parsed.list), r.status, r.disabled, r.log, FALSE, Absent)

AllCoverRecords(covers) == CoverRecords(covers, Len(covers))

\* scraper.py:573-605, with r the outcome of the request.
_parse_cover_assets(r) ==
    IF ~r.status.status
    THEN Done(None, r.status, r.disabled, r.log, FALSE, Absent)
    ELSE IF r.json.kind = "None"
    THEN Done(List(<<>>), r.status, r.disabled, r.log, FALSE, Absent)
    ELSE _cover_asset_list(r, AllCoverRecords(CoversInOrder(r.json.cover_groups)))

_retrieve_cover_assets(dis, key, cand, platform_id, st, script, payload) ==
    _parse_cover_assets(_retrieve_URL_as_JSON(dis, CoversURL(key, cand, platform_id),
                                              st, script, payload, 0))

\* Faulty variant: the asset cache is never consulted.
AssetCacheHit_never(caches, ckey) == FALSE

\* scraper.py:513
AssetCacheHit(caches, ckey) == _check_disk_cache(caches, CACHE_INTERNAL, ckey)

\* scraper.py:525-533, with the outcomes of both retrievals.
_join_assets(snap, cover) ==
    IF cover.result.kind = "raise" \/ ~cover.status.status
    THEN [cover EXCEPT !.log = snap.log \o cover.log]
    ELSE Done(List(snap.result.items \o cover.result.items), cover.status, cover.disabled,
              snap.log \o cover.log, FALSE,
              List(snap.result.items \o cover.result.items))

\* scraper.py:520-533, with the outcome of the screenshots retrieval.
_retrieve_after_snaps(snap, key, cand, script2, covers) ==
    IF ~snap.status.status
    THEN snap
    ELSE _join_assets(snap,
                      _retrieve_cover_assets(snap.disabled, key, cand,
                                             cand.scraper_platform, snap.status, script2,
                                             covers))

_retrieve_all_assets(dis, key, ckey, cand, caches, st, script1, script2, shots, covers) ==
    IF AssetCacheHit(caches, ckey)
    THEN Done(_retrieve_from_disk_cache(caches, CACHE_INTERNAL, ckey), st, dis, <<>>,
              TRUE, Absent)
    ELSE _retrieve_after_snaps(_retrieve_snap_assets(dis, key, cand, cand.scraper_platform,
                                                     st, script1, shots),
                               key, cand, script2, covers)

\* Faulty variant: the superset is returned whatever the kind asked.
_select_assets_all(all, asset_info_id) ==
    IF all.result.kind = "raise" THEN all
    ELSE IF ~all.status.status THEN [all EXCEPT !.result = None]
    ELSE all

\* scraper.py:239-245, with the outcome of _retrieve_all_assets.
_select_assets(all, asset_info_id) ==
    IF all.result.kind = "raise" THEN all
    ELSE IF ~all.status.status THEN [all EXCEPT !.result = None]
    ELSE [all EXCEPT !.result =
             List(SelectSeq(all.result.items,
                            LAMBDA asset_dic : asset_dic.asset_ID = asset_info_id))]

get_assets(dis, key, ckey, cand, caches, st, asset_info_id, script1, script2, shots, covers) ==
    IF dis
    THEN Done(List(<<>>), st, dis, <<>>, FALSE, Absent)
    ELSE _select_assets(_retrieve_all_assets(dis, key, ckey, cand, caches, st, script1,
                                             script2, shots, covers),
                        asset_info_id)

-----------------------------------------------------------------------------
(* download_image and debug_get_platforms, scraper.py:261-283.             *)

\* Faulty variant: the download is tried until the file is there, three times
\* at most.
download_image_thrice(dis, st, exists1, exists2) ==
    Done([kind |-> "path", exists |-> exists1 \/ exists2], st, dis,
         IF exists1 THEN <<WaitEv("default"), DownloadEv(1)>>
         ELSE IF exists2
         THEN <<WaitEv("default"), DownloadEv(1), WaitEv("5000"), DownloadEv(2)>>
         ELSE <<WaitEv("default"), DownloadEv(1), WaitEv("5000"), DownloadEv(2),
                WaitEv("5000"), DownloadEv(3)>>,
         FALSE, Absent)

\* exists1, exists2: whether the file is there after the first and after the
\* second net.download_img.
download_image(dis, st, exists1, exists2) ==
    Done([kind |-> "path", exists |-> exists1 \/ exists2], st, dis,
         IF exists1 THEN <<WaitEv("default"), DownloadEv(1)>>
         ELSE <<WaitEv("default"), DownloadEv(1), WaitEv("5000"), DownloadEv(2)>>,
         FALSE, Absent)

\* scraper.py:278-283, with r the outcome of the request.
_platforms_or_none(r) ==
    Done(IF ~r.status.status THEN None ELSE r.json, r.status, r.disabled, r.log,
         FALSE, Absent)

debug_get_platforms(dis, key, st, script) ==
    _platforms_or_none(_retrieve_URL_as_JSON(dis, PlatformsURL(key), st, script,
                                             [kind |-> "json"], 0))

-----------------------------------------------------------------------------
(* resolve_asset_URL and _clean_URL_for_log, scraper.py:249-256, 609-616.  *)

Text_http == <<"h", "t", "t", "p">>
Text_api_key == <<"a", "p", "i", "_", "k", "e", "y", "=">>
Text_stars == <<"*", "*", "*">>

StartsWith(s, prefix) == Len(s) >= Len(prefix) /\ SubSeq(s, 1, Len(prefix)) = prefix

\* [^&]*: what is left of s from its first "&" on.
RECURSIVE AfterValue(_)
AfterValue(s) == IF s = <<>> \/ Head(s) = "&" THEN s ELSE AfterValue(Tail(s))

\* Both substitutions: the value of every api_key= up to the next "&" or to
\* the end of the URL becomes ***.
RECURSIVE _clean_URL_for_log(_)
_clean_URL_for_log(url) ==
    IF url = <<>> THEN <<>>
    ELSE IF StartsWith(url, Text_api_key)
    THEN Text_api_key \o Text_stars
         \o _clean_URL_for_log(AfterValue(SubSeq(url, Len(Text_api_key) + 1, Len(url))))
    ELSE <<Head(url)>> \o _clean_URL_for_log(Tail(url))

resolve_asset_URL(dis, st, selected_asset) ==
    LET given == selected_asset.url
        url == IF StartsWith(given, Text_http)
               THEN <<"h", "t", "t", "p", "s">> \o SubSeq(given, 5, Len(given))
               ELSE given
    IN  Done([kind |-> "url", url |-> url, url_log |-> _clean_URL_for_log(url)],
             st, dis, <<>>, FALSE, Absent)
-----------------------------------------------------------------------------
(* The field extractors, scraper.py:343-508.  A JSON object is a function   *)
(* from its keys; every other JSON value is a record tagged with its type.  *)
(* An extractor gives Value(v), or Raise(exc) when the Python code raises.  *)

JNull == [t |-> "null"]
JStr(s) == [t |-> "str", v |-> s]
JNum(n) == [t |-> "num", v |-> n]
JList(items) == [t |-> "list", items |-> items]
JConst(name) == [t |-> "const", v |-> name]
EmptyDict == [k \in {} |-> JNull]

Value(v) == [kind |-> "value", v |-> v]
Raise(exc) == [kind |-> "raise", exc |-> exc]

\* key in d
Has(d, key) == key \in DOMAIN d

\* s.replace(old, ''), from left to right.
RECURSIVE Remove(_, _)
Remove(s, old) ==
    IF s = <<>> THEN <<>>
    ELSE IF StartsWith(s, old) THEN Remove(SubSeq(s, Len(old) + 1, Len(s)), old)
    ELSE <<Head(s)>> \o Remove(Tail(s), old)

Digits == {"0", "1", "2", "3", "4", "5", "6", "7", "8", "9"}

\* str.isnumeric() on the characters used here.
IsNumeric(s) == s # <<>> /\ \A i \in DOMAIN s : s[i] \in Digits

\* The longest run of digits at the head of s.
RECURSIVE DigitRun(_)
DigitRun(s) ==
    IF s = <<>> \/ Head(s) \notin Digits THEN <<>> ELSE <<Head(s)>> \o DigitRun(Tail(s))

\* regex_num_of_player.search(s) with r'\d+\-(\d+)': group(1) of the
\* leftmost match, <<>> when there is none (a match has a group of one
\* digit at least).
RECURSIVE regex_num_of_player(_)
regex_num_of_player(s) ==
    IF s = <<>> THEN <<>>
    ELSE LET first == DigitRun(s)
             rest == SubSeq(s, Len(first) + 1, Len(s))
         IN  IF first # <<>> /\ rest # <<>> /\ Head(rest) = "-"
                /\ DigitRun(Tail(rest)) # <<>>
             THEN DigitRun(Tail(rest))
             ELSE regex_num_of_player(Tail(s))

Text_Players == <<" ", "P", "l", "a", "y", "e", "r", "s">>
Text_Player == <<" ", "P", "l", "a", "y", "e", "r">>

\* scraper.py:343-352; ', '.join(genre_names) is kept as the list of names.
RECURSIVE genre_names(_)
genre_names(genres) ==
    IF genres = <<>> THEN Value(<<>>)
    ELSE IF ~Has(Head(genres), "genre_name") THEN Raise("KeyError")
    ELSE LET rest == genre_names(Tail(genres))
         IN  IF rest.kind = "raise" THEN rest
             ELSE Value(<<Head(genres)["genre_name"]>> \o rest.v)

_parse_metadata_genre(json_data) ==
    IF Has(json_data, "genres")
    THEN IF json_data["genres"].t # "list" THEN Raise("TypeError")
         ELSE LET names == genre_names(json_data["genres"].items)
              IN  IF names.kind = "raise" THEN names ELSE Value(JList(names.v))
    ELSE Value(JConst("DEFAULT_META_GENRE"))

\* scraper.py:354-362; text.remove_HTML_tags is kept as a tag on the text.
_parse_metadata_plot(json_data) ==
    IF Has(json_data, "description") /\ json_data["description"].t # "null"
    THEN Value([t |-> "remove_HTML_tags", v |-> json_data["description"].v])
    ELSE Value(JConst("DEFAULT_META_PLOT"))

\* scraper.py:364-368
_parse_metadata_rating(json_data) ==
    IF Has(json_data, "moby_score") /\ json_data["moby_score"].t # "null"
    THEN Value(json_data["moby_score"])
    ELSE Value(JNull)

\* scraper.py:378-381
RECURSIVE developer_of(_)
developer_of(companies) ==
    IF companies = <<>> THEN Value(JNull)
    ELSE IF ~Has(Head(companies), "role") THEN Raise("KeyError")
    ELSE IF Head(companies)["role"] = JStr("Developed by")
    THEN IF Has(Head(companies), "company_name")
         THEN Value(Head(companies)["company_name"]) ELSE Raise("KeyError")
    ELSE developer_of(Tail(companies))

\* scraper.py:370-381
_parse_metadata_developer(json_data) ==
    IF ~Has(json_data, "releases") THEN Value(JNull)
    ELSE IF json_data["releases"].t # "list" THEN Raise("TypeError")
    ELSE IF Len(json_data["releases"].items) = 0 THEN Value(JNull)
    ELSE IF ~Has(json_data["releases"].items[1], "companies") THEN Value(JNull)
    ELSE IF json_data["releases"].items[1]["companies"].t # "list" THEN Raise("TypeError")
    ELSE developer_of(json_data["releases"].items[1]["companies"].items)

\* scraper.py:387-390 and 396-399: the first rating of the system.
RECURSIVE rating_of(_, _, _)
rating_of(ratings, system, default) ==
    IF ratings = <<>> THEN Value(default)
    ELSE IF ~Has(Head(ratings), "rating_system_name") THEN Raise("KeyError")
    ELSE IF Head(ratings)["rating_system_name"] = JStr(system)
    THEN IF Has(Head(ratings), "rating_name")
         THEN Value(Head(ratings)["rating_name"]) ELSE Raise("KeyError")
    ELSE rating_of(Tail(ratings), system, default)

\* scraper.py:383-390
_parse_metadata_esrb(json_data) ==
    IF ~Has(json_data, "ratings") \/ json_data["ratings"].t = "null"
    THEN Value(JConst("DEFAULT_META_ESRB"))
    ELSE rating_of(json_data["ratings"].items, "ESRB Rating", JConst("DEFAULT_META_ESRB"))

\* scraper.py:392-399
_parse_metadata_pegi(json_data) ==
    IF ~Has(json_data, "ratings") \/ json_data["ratings"].t = "null"
    THEN Value(JStr(<<>>))
    ELSE rating_of(json_data["ratings"].items, "PEGI Rating", JStr(<<>>))

\* scraper.py:421-437
\* _parse_nplayers without the second replace.
_parse_nplayers_unstripped(attribute) ==
    IF ~Has(attribute, "attribute_name") \/ attribute["attribute_name"].t = "null"
          \/ attribute["attribute_name"].v = <<>>
    THEN Value(JConst("DEFAULT_META_NPLAYERS"))
    ELSE LET nplayers_str == Remove(attribute["attribute_name"].v, Text_Players)
         IN  IF IsNumeric(nplayers_str) THEN Value(JStr(nplayers_str))
             ELSE IF regex_num_of_player(nplayers_str) = <<>>
             THEN Value(JConst("DEFAULT_META_NPLAYERS"))
             ELSE Value(JStr(regex_num_of_player(nplayers_str)))

_parse_nplayers(attribute) ==
    IF ~Has(attribute, "attribute_name") \/ attribute["attribute_name"].t = "null"
          \/ attribute["attribute_name"].v = <<>>
    THEN Value(JConst("DEFAULT_META_NPLAYERS"))
    ELSE LET nplayers_str == Remove(Remove(attribute["attribute_name"].v, Text_Players),
                                    Text_Player)
         IN  IF IsNumeric(nplayers_str) THEN Value(JStr(nplayers_str))
             ELSE IF regex_num_of_player(nplayers_str) = <<>>
             THEN Value(JConst("DEFAULT_META_NPLAYERS"))
             ELSE Value(JStr(regex_num_of_player(nplayers_str)))

\* scraper.py:404-406 and 414-416: the first attribute of the category.
RECURSIVE nplayers_of(_, _)
nplayers_of(attributes, category) ==
    IF attributes = <<>> THEN Value(JConst("DEFAULT_META_NPLAYERS"))
    ELSE IF ~Has(Head(attributes), "attribute_category_id") THEN Raise("KeyError")
    ELSE IF Head(attributes)["attribute_category_id"] = JNum(category)
    THEN _parse_nplayers(Head(attributes))
    ELSE nplayers_of(Tail(attributes), category)

\* scraper.py:401-409
_parse_metadata_nplayers(json_data) ==
    IF Has(json_data, "attributes")
    THEN IF json_data["attributes"].t # "list" THEN Raise("TypeError")
         ELSE nplayers_of(json_data["attributes"].items, 40)
    ELSE Value(JConst("DEFAULT_META_NPLAYERS"))

\* scraper.py:411-419
_parse_metadata_nplayers_online(json_data) ==
    IF Has(json_data, "attributes")
    THEN IF json_data["attributes"].t # "list" THEN Raise("TypeError")
         ELSE nplayers_of(json_data["attributes"].items, 38)
    ELSE Value(JConst("DEFAULT_META_NPLAYERS"))

Text_None == <<"N", "o", "n", "e">>
Text_Full_screen == <<"F", "u", "l", "l", " ", "s", "c", "r", "e", "e", "n">>
Text_Window == <<"W", "i", "n", "d", "o", "w">>
Text_HDTV == <<"H", "D", "T", "V", " ">>
Text_Progressive_Scan == <<"P", "r", "o", "g", "r", "e", "s", "s", "i", "v", "e", " ", "S", "c", "a", "n">>
Text_Digital_Joystick == <<"D", "i", "g", "i", "t", "a", "l", " ", "J", "o", "y", "s", "t", "i", "c", "k">>
Text_controller == <<"c", "o", "n", "t", "r", "o", "l", "l", "e", "r">>
Text_VS == <<"F", "r", "e", "e", "-", "f", "o", "r", "-", "a", "l", "l", " ", "/", " ", "O", "n", "e", "-", "o", "n", "-", "o", "n", "e", " ", "(", "V", "S", ")">>
Text_free_for_all == <<"f", "r", "e", "e", "-", "f", "o", "r", "-", "a", "l", "l">>
Text_Other_Input_Devices == <<"O", "t", "h", "e", "r", " ", "I", "n", "p", "u", "t", " ", "D", "e", "v", "i", "c", "e", "s">>

\* s.replace(old, new), from left to right.
RECURSIVE Replace(_, _, _)
Replace(s, old, new) ==
    IF s = <<>> THEN <<>>
    ELSE IF StartsWith(s, old)
    THEN new \o Replace(SubSeq(s, Len(old) + 1, Len(s)), old, new)
    ELSE <<Head(s)>> \o Replace(Tail(s), old, new)

\* str(attribute['attribute_name'])
attribute_name_str(attribute) ==
    IF attribute["attribute_name"].t = "null" THEN Text_None
    ELSE attribute["attribute_name"].v

\* A tag, or None when the value gives no tag.
NoTag == JNull

\* scraper.py:470-479; "u00d7" is the one character U+00D7.
_parse_tag_videomodes(attribute) ==
    LET videomode == attribute_name_str(attribute)
    IN  IF videomode = Text_Full_screen \/ videomode = Text_Window THEN NoTag
        ELSE JStr(Replace(Remove(Remove(videomode, Text_HDTV), Text_Progressive_Scan),
                          <<"u00d7">>, <<"x">>))

\* scraper.py:481-484
_parse_tag_videoresolution(attribute) ==
    JStr(Replace(attribute_name_str(attribute), <<"u00d7">>, <<"x">>))

\* scraper.py:486-488
_parse_tag_sound(attribute) == JStr(Lower(attribute_name_str(attribute)))

\* scraper.py:490-494
_parse_tag_controllers(attribute) ==
    IF attribute_name_str(attribute) = Text_Digital_Joystick
    THEN JStr(Text_controller) ELSE NoTag

\* scraper.py:496-500
_parse_tag_mp_modes(attribute) ==
    IF attribute_name_str(attribute) = Text_VS THEN JStr(Text_free_for_all)
    ELSE JStr(Lower(attribute_name_str(attribute)))

\* scraper.py:502-506
_parse_tag_input_devices(attribute) ==
    IF attribute_name_str(attribute) = Text_Other_Input_Devices THEN NoTag
    ELSE JStr(Lower(attribute_name_str(attribute)))

\* scraper.py:447-464: the tag of one attribute; the later category wins,
\* and each category is tried in the order 2, 6, 45, 27, 52, 65.
TagCategories == {2, 6, 45, 27, 52, 65}

tag_of(attribute) ==
    LET category == attribute["attribute_category_id"]
    IN  IF category = JNum(2) THEN _parse_tag_videomodes(attribute)
        ELSE IF category = JNum(6) THEN _parse_tag_input_devices(attribute)
        ELSE IF category = JNum(45) THEN _parse_tag_videoresolution(attribute)
        ELSE IF category = JNum(27) THEN _parse_tag_sound(attribute)
        ELSE IF category = JNum(52) THEN _parse_tag_mp_modes(attribute)
        ELSE IF category = JNum(65) THEN _parse_tag_controllers(attribute)
        ELSE NoTag

\* scraper.py:445-467
RECURSIVE tags_of(_)
tags_of(attributes) ==
    IF attributes = <<>> THEN Value(<<>>)
    ELSE IF ~Has(Head(attributes), "attribute_category_id") THEN Raise("KeyError")
    ELSE IF Head(attributes)["attribute_category_id"].v \in TagCategories
            /\ ~Has(Head(attributes), "attribute_name")
    THEN Raise("KeyError")
    ELSE LET rest == tags_of(Tail(attributes))
         IN  IF rest.kind = "raise" THEN rest
             ELSE IF tag_of(Head(attributes)) = NoTag THEN rest
             ELSE Value(<<tag_of(Head(attributes))>> \o rest.v)

\* scraper.py:439-468
_parse_metadata_tags(json_data) ==
    IF ~Has(json_data, "attributes") THEN Value(JList(<<>>))
    ELSE IF json_data["attributes"].t # "list" THEN Raise("TypeError")
    ELSE LET tags == tags_of(json_data["attributes"].items)
         IN  IF tags.kind = "raise" THEN tags ELSE Value(JList(tags.v))


-----------------------------------------------------------------------------
(* Time: _wait_for_API_request and self.last_http_call.  The clock holds    *)
(* the whole seconds since self.last_http_call was set and since the last   *)
(* outbound call (a GET or a download) was made, both up to MaxIdle.        *)

Min(a, b) == IF a <= b THEN a ELSE b

Clock(since_last_http_call, since_outbound) ==
    [since_last_http_call |-> since_last_http_call, since_outbound |-> since_outbound]

Later(t, seconds) ==
    Clock(Min(t.since_last_http_call + seconds, MaxIdle),
          Min(t.since_outbound + seconds, MaxIdle))

\* Blocks for what is left of the interval since self.last_http_call.
_wait_for_API_request(t, wait_time_in_miliseconds) ==
    IF t.since_last_http_call * 1000 < wait_time_in_miliseconds
    THEN Later(t, (wait_time_in_miliseconds \div 1000) - t.since_last_http_call)
    ELSE t

\* The clock after one event of a call.
After(t, ev) ==
    CASE ev.e = "wait" -> _wait_for_API_request(t, ev.ms)
      [] ev.e = "prompt" -> Later(t, ev.took)
      [] ev.e = "stamp" -> Clock(0, t.since_outbound)
      [] OTHER -> Clock(t.since_last_http_call, 0)

\* The clock after the events of a call and, for each of its outbound calls,
\* the seconds since the outbound call before it.
RECURSIVE Elapse(_, _, _)
Elapse(t, log, gaps) ==
    IF log = <<>> THEN [clock |-> t, gaps |-> gaps]
    ELSE Elapse(After(t, Head(log)), Tail(log),
                IF Head(log).e \in {"get", "download"}
                THEN Append(gaps, t.since_outbound) ELSE gaps)
-----------------------------------------------------------------------------
(* The state machine.                                                      *)

ApiKeys == {"", "key1"}

CacheKeys == Library

NoCandidate == [id |-> NoValue, platform |-> "-", scraper_platform |-> NoValue]

SelectedCandidate(id, platform) ==
    [id |-> PyInt(id), platform |-> platform,
     scraper_platform |-> convert_AKL_platform_to_MobyGames(platform)]

\* What an earlier session may have flushed to the disk cache.
StoredMetadata ==
    {ParseGamedata(GamePayload(SelectedCandidate(id, "-")),
                   GamePayload(SelectedCandidate(id, "-"))) : id \in CandidateIds}

StoredAssets ==
    {List(SnapRecords(ScreenshotsPayload.screenshots)
          \o CoverRecords(CoversInOrder(CoversPayload.cover_groups),
                          Len(CoversInOrder(CoversPayload.cover_groups))).list)}

\* The assets the caller may pick after get_assets: one of each scheme.
SelectableAssets ==
    {a \in UNION {{s.items[i] : i \in DOMAIN s.items} : s \in StoredAssets} :
        a.url \in {Text_http_1, Text_https_3}}

Observed(op, arg, d) ==
    [op |-> op, arg |-> arg, disabled |-> scraper_disabled, hit |-> d.hit,
     result |-> d.result, log |-> d.log, gaps |-> Elapse(clock, d.log, <<>>).gaps]

\* What is seen of a step that is no call of the scraper.
Unobserved(op) ==
    [op |-> op, arg |-> "-", disabled |-> scraper_disabled, hit |-> FALSE,
     result |-> None, log |-> <<>>, gaps |-> <<>>]

Init ==
    /\ api_key \in ApiKeys
    /\ scraper_disabled = FALSE
    /\ cache_key = NoKey
    /\ candidate = NoCandidate
    /\ disk_caches \in
          {c \in [Namespaces -> [CacheKeys -> {Absent} \cup StoredMetadata \cup StoredAssets]] :
              /\ \A k \in CacheKeys : c[CACHE_METADATA][k] \in {Absent} \cup StoredMetadata
              /\ \A k \in CacheKeys : c[CACHE_INTERNAL][k] \in {Absent} \cup StoredAssets}
    /\ status_dic = new_status_dic
    /\ clock = Clock(0, MaxIdle)
    /\ last = Unobserved("__init__")

\* The caller starts over with a fresh status dictionary.
NewStatusDic ==
    /\ status_dic # new_status_dic
    /\ status_dic' = new_status_dic
    /\ last' = Unobserved("new_status_dic")
    /\ UNCHANGED <<api_key, scraper_disabled, cache_key, candidate, disk_caches, clock>>

\* A public call returns: the object and the caller's status_dic are as the
\* call left them, and the caller has seen its result.
Returns(op, arg, d) ==
    /\ scraper_disabled' = d.disabled
    /\ status_dic' = d.status
    /\ clock' = Elapse(clock, d.log, <<>>).clock
    /\ last' = Observed(op, arg, d)
    /\ UNCHANGED <<api_key, cache_key, candidate>>

\* The call has put d.store, if anything, under the current key of cache_type.
Stores(cache_type, d) ==
    disk_caches' = IF cache_key = NoKey THEN disk_caches
                   ELSE _update_disk_cache(disk_caches, cache_type, cache_key, d.store)

CheckBeforeScraping ==
    /\ Returns("check_before_scraping", "-",
               check_before_scraping(scraper_disabled, api_key, status_dic))
    /\ UNCHANGED disk_caches

GetCandidates(scripts, lists) ==
    \E platform \in SearchPlatforms, script \in scripts, games \in lists :
        /\ Returns("get_candidates", platform,
                   get_candidates(scraper_disabled, api_key, status_dic, SearchTerm,
                                  platform, script, games))
        /\ UNCHANGED disk_caches

\* set_candidate of the base class: the caller picks a candidate for a ROM.
SetCandidate ==
    \E rom \in Library, id \in CandidateIds :
        /\ cache_key' = rom
        /\ candidate' = SelectedCandidate(id, rom[2])
        /\ last' = Unobserved("set_candidate")
        /\ UNCHANGED <<api_key, scraper_disabled, disk_caches, status_dic, clock>>

\* The script of the second request matters only when the first one let the
\* call go on.
FirstPasses(script) ==
    _retrieve_URL_as_JSON(scraper_disabled, NoURL, status_dic, script, None, 0).status.status

SecondScripts(scripts, script1) == IF FirstPasses(script1) THEN scripts ELSE {script1}

GetMetadataReturns(d) ==
    Returns("get_metadata", "-", d) /\ Stores(CACHE_METADATA, d)

GetMetadata(scripts) ==
    /\ scraper_disabled \/ cache_key # NoKey
    /\ \E script1 \in scripts :
       \E script2 \in SecondScripts(scripts, script1) :
          GetMetadataReturns(get_metadata(scraper_disabled, api_key, cache_key, candidate,
                                          disk_caches, status_dic, script1, script2))

GetAssetsReturns(asset_info_id, d) ==
    Returns("get_assets", asset_info_id, d) /\ Stores(CACHE_INTERNAL, d)

GetAssets(scripts) ==
    /\ scraper_disabled \/ cache_key # NoKey
    /\ \E asset_info_id \in AssetKinds, script1 \in scripts :
       \E script2 \in SecondScripts(scripts, script1) :
          GetAssetsReturns(asset_info_id,
                           get_assets(scraper_disabled, api_key, cache_key, candidate,
                                      disk_caches, status_dic, asset_info_id, script1,
                                      script2, ScreenshotsPayload, CoversPayload))

ResolveAssetURL(assets) ==
    \E selected_asset \in assets :
        /\ Returns("resolve_asset_URL", selected_asset.url,
                   resolve_asset_URL(scraper_disabled, status_dic, selected_asset))
        /\ UNCHANGED disk_caches

DownloadImage ==
    \E exists1 \in BOOLEAN :
    \E exists2 \in IF exists1 THEN {TRUE} ELSE BOOLEAN :
        /\ Returns("download_image", IF exists1 THEN "exists" ELSE "missing",
                   download_image(scraper_disabled, status_dic, exists1, exists2))
        /\ UNCHANGED disk_caches

DebugGetPlatforms(scripts) ==
    \E script \in scripts :
        /\ Returns("debug_get_platforms", "-",
                   debug_get_platforms(scraper_disabled, api_key, status_dic, script))
        /\ UNCHANGED disk_caches

\* The session: every public call in any order, over the response scripts
\* SessionScripts.
Next ==
    \/ NewStatusDic
    \/ CheckBeforeScraping
    \/ GetCandidates(SessionScripts, SessionGameLists)
    \/ SetCandidate
    \/ GetMetadata(SessionScripts)
    \/ GetAssets(SessionScripts)
    \/ ResolveAssetURL(SelectableAssets)
    \/ DownloadImage
    \/ DebugGetPlatforms(SessionScripts)

Spec == Init /\ [][Next]_vars

\* One request per call, over every response script: a configured client
\* that searches and fetches the platform catalog.
InitRequest ==
    /\ Init
    /\ api_key = "key1"
    /\ \A ns \in Namespaces, k \in CacheKeys : disk_caches[ns][k] = Absent

NextRequest ==
    \/ NewStatusDic
    \/ GetCandidates(Scripts, {<<>>})
    \/ DebugGetPlatforms(Scripts)

SpecRequest == InitRequest /\ [][NextRequest]_vars

\* A second passes between two calls of the scraper.
Tick ==
    /\ clock # Later(clock, 1)
    /\ clock' = Later(clock, 1)
    /\ last' = Unobserved("tick")
    /\ UNCHANGED <<api_key, scraper_disabled, cache_key, candidate, disk_caches,
                   status_dic>>

\* Requests and downloads in any order with time passing between them.
NextClock ==
    \/ Tick
    \/ NewStatusDic
    \/ DownloadImage
    \/ DebugGetPlatforms(SessionScripts)

SpecClock == InitRequest /\ [][NextClock]_vars

-----------------------------------------------------------------------------
(* The text functions on their own: resolve_asset_URL, _clean_URL_for_log   *)
(* and the score of _search_candidates, over small URLs and titles.         *)

Text_scheme_http == <<"h", "t", "t", "p", ":", "/", "/">>
Text_scheme_https == <<"h", "t", "t", "p", "s", ":", "/", "/">>

\* URLs of assets: both schemes, another scheme, and no scheme at all.
TextURLs ==
    {Text_scheme_http \o <<"a">>, Text_scheme_https \o <<"a">>,
     Text_scheme_http, Text_scheme_https,
     <<"f", "t", "p", ":", "/", "/", "a">>, <<"h", "t", "t", "p">>, <<"a">>,
     Text_scheme_http \o <<"a", "?">> \o Text_api_key \o <<"k">>,
     Text_scheme_https \o <<"a", "?">> \o Text_api_key \o <<"k">>}

TextAssets == {[url |-> u] : u \in TextURLs}

\* Query parameters: the key, a parameter whose name ends in the key's name,
\* and another one; each with and without a value.
ParamNames == {<<"a", "p", "i", "_", "k", "e", "y">>,
               <<"x", "a", "p", "i", "_", "k", "e", "y">>, <<"t">>}
ParamValues == {<<>>, <<"k">>}
Params == {[name |-> n, value |-> v] : n \in ParamNames, v \in ParamValues}
MaxParams == 2
ParamLists == UNION {[1..n -> Params] : n \in 1..MaxParams}

\* name=value joined by "&".
RECURSIVE Query(_)
Query(params) ==
    IF params = <<>> THEN <<>>
    ELSE Head(params).name \o <<"=">> \o Head(params).value
         \o (IF Len(params) > 1 THEN <<"&">> ELSE <<>>) \o Query(Tail(params))

QueryURL(params) == <<"u", "?">> \o Query(params)

CleanURLForLog ==
    \E params \in ParamLists :
        /\ Returns("_clean_URL_for_log", params,
                   Done([kind |-> "text", text |-> _clean_URL_for_log(QueryURL(params))],
                        status_dic, scraper_disabled, <<>>, FALSE, Absent))
        /\ UNCHANGED disk_caches

\* Titles and search terms: up to MaxText letters, in both cases.
MaxText == 2
Texts == UNION {[1..n -> {"a", "A", "b"}] : n \in 0..MaxText}

ScoreTitle ==
    \E title \in Texts, search_term \in Texts :
        /\ Returns("Score", [title |-> title, search_term |-> search_term],
                   Done([kind |-> "order", order |-> Score(title, search_term)],
                        status_dic, scraper_disabled, <<>>, FALSE, Absent))
        /\ UNCHANGED disk_caches

NextText ==
    \/ ResolveAssetURL(TextAssets)
    \/ CleanURLForLog
    \/ ScoreTitle

SpecText == InitRequest /\ [][NextText]_vars

-----------------------------------------------------------------------------
(* The search on its own, over every short result list of the API.         *)

\* The catalog with a second game whose title equals the search term.
CatalogGames == Games \cup {[game_id |-> 4, title |-> <<"a", " ", "b">>]}

CatalogGame(id) == CHOOSE g \in CatalogGames : g.game_id = id

MaxGames == 3

\* json_data['games']: any games in any order, a game twice included.
GameLists == UNION {[1..n -> CatalogGames] : n \in 0..MaxGames}

SearchScripts == {Script(0, Ok200), Script(0, Response(404, "json_msg", "wait"))}

SearchCandidates ==
    \E games \in GameLists, script \in SearchScripts :
        /\ Returns("_search_candidates", games,
                   _search_candidates(scraper_disabled, api_key, status_dic, SearchTerm,
                                      "jaguar", convert_AKL_platform_to_MobyGames("jaguar"),
                                      script, games))
        /\ UNCHANGED disk_caches

NextSearch ==
    \/ NewStatusDic
    \/ SearchCandidates

SpecSearch == InitRequest /\ [][NextSearch]_vars

-----------------------------------------------------------------------------
(* The field extractors on their own, over small JSON records in which the  *)
(* field is absent, null, or a list of complete and incomplete items.       *)

MaxItems == 2

ItemLists(kinds) == UNION {[1..n -> kinds] : n \in 0..MaxItems}

\* The records with nothing but the field key, in each of its states.
Records(key, kinds) ==
    {EmptyDict, key :> JNull} \cup {key :> JList(items) : items \in ItemLists(kinds)}

\* The records with a field that is no list: absent, null, or the value.
ScalarRecords(key, value) == {EmptyDict, key :> JNull, key :> value}

GenreItems == {EmptyDict, "genre_name" :> JStr("Action")}

CompanyItems ==
    {EmptyDict, "role" :> JStr("Developed by"),
     "role" :> JStr("Developed by") @@ "company_name" :> JStr("Konami"),
     "role" :> JStr("Published by") @@ "company_name" :> JStr("Nintendo")}

ReleaseItems ==
    {EmptyDict, "companies" :> JNull, "companies" :> JList(<<>>)}
       \cup {"companies" :> JList(<<c>>) : c \in CompanyItems}

RatingItems ==
    {EmptyDict, "rating_system_name" :> JStr("ESRB Rating"),
     "rating_system_name" :> JStr("ESRB Rating") @@ "rating_name" :> JStr("Teen"),
     "rating_system_name" :> JStr("PEGI Rating") @@ "rating_name" :> JStr("12")}

Attribute(category, name) ==
    "attribute_category_id" :> JNum(category) @@ "attribute_name" :> name

AttributeItems ==
    {EmptyDict, "attribute_category_id" :> JNum(40),
     Attribute(40, JStr(<<"1", "-", "4", " ", "P", "l", "a", "y", "e", "r", "s">>)),
     Attribute(38, JStr(<<"2", " ", "P", "l", "a", "y", "e", "r", "s">>)),
     Attribute(38, JNull),
     Attribute(27, JStr(<<"F", "M">>)),
     Attribute(65, JStr(Text_Digital_Joystick))}

\* The extractors with the records each of them is given.
Extractions ==
    [_parse_metadata_genre |-> Records("genres", GenreItems),
     _parse_metadata_plot |-> ScalarRecords("description", JStr("<i>plot</i>")),
     _parse_metadata_rating |-> ScalarRecords("moby_score", JNum(8)),
     _parse_metadata_developer |-> Records("releases", ReleaseItems),
     _parse_metadata_esrb |-> Records("ratings", RatingItems),
     _parse_metadata_pegi |-> Records("ratings", RatingItems),
     _parse_metadata_nplayers |-> Records("attributes", AttributeItems),
     _parse_metadata_nplayers_online |-> Records("attributes", AttributeItems),
     _parse_metadata_tags |-> Records("attributes", AttributeItems)]

Extract(extractor, json_data) ==
    CASE extractor = "_parse_metadata_genre" -> _parse_metadata_genre(json_data)
      [] extractor = "_parse_metadata_plot" -> _parse_metadata_plot(json_data)
      [] extractor = "_parse_metadata_rating" -> _parse_metadata_rating(json_data)
      [] extractor = "_parse_metadata_developer" -> _parse_metadata_developer(json_data)
      [] extractor = "_parse_metadata_esrb" -> _parse_metadata_esrb(json_data)
      [] extractor = "_parse_metadata_pegi" -> _parse_metadata_pegi(json_data)
      [] extractor = "_parse_metadata_nplayers" -> _parse_metadata_nplayers(json_data)
      [] extractor = "_parse_metadata_nplayers_online" ->
            _parse_metadata_nplayers_online(json_data)
      [] extractor = "_parse_metadata_tags" -> _parse_metadata_tags(json_data)

ParseMetadata ==
    \E extractor \in DOMAIN Extractions :
    \E json_data \in Extractions[extractor] :
        /\ Returns(extractor, json_data,
                   Done(Extract(extractor, json_data), status_dic, scraper_disabled,
                        <<>>, FALSE, Absent))
        /\ UNCHANGED disk_caches

NextExtract == ParseMetadata

SpecExtract == InitRequest /\ [][NextExtract]_vars

-----------------------------------------------------------------------------
(* The platform conversions on their own, over the whole registry.          *)

\* Codes to convert back: those of the table, the sentinel, and one more.
PlatformCodes == MappedCodes \cup {DEFAULT_PLAT_MOBYGAMES, 1}

ConvertPlatform ==
    \E compact_name \in AKL_platforms :
        /\ Returns("convert_AKL_platform_to_MobyGames", compact_name,
                   Done(convert_AKL_platform_to_MobyGames(compact_name), status_dic,
                        scraper_disabled, <<>>, FALSE, Absent))
        /\ UNCHANGED disk_caches

ConvertPlatformBack ==
    \E code \in PlatformCodes :
        /\ Returns("convert_MobyGames_platform_to_AKL_platform", code,
                   Done(PyStr(convert_MobyGames_platform_to_AKL_platform(PyInt(code))),
                        status_dic, scraper_disabled, <<>>, FALSE, Absent))
        /\ UNCHANGED disk_caches

NextPlatform ==
    \/ ConvertPlatform
    \/ ConvertPlatformBack

SpecPlatform == InitRequest /\ [][NextPlatform]_vars

-----------------------------------------------------------------------------
(* The assets: get_assets over several supersets, and the two parsers on    *)
(* their own over every short response.                                     *)

Cover(scan_of, n) == [scan_of |-> scan_of, image |-> <<"h", "t", "t", "p", "s", ":", n>>]

Text_Front_Cover == <<"F", "r", "o", "n", "t", " ", "C", "o", "v", "e", "r">>
Text_Spine_Sides == <<"S", "p", "i", "n", "e", "/", "S", "i", "d", "e", "s">>
Text_Jewel_Case == <<"J", "e", "w", "e", "l", " ", "C", "a", "s", "e">>

\* A response without screenshots, and one with a cover of a kind that is
\* None in the table.
NoScreenshotsPayload == [kind |-> "json", screenshots |-> <<>>]

SpineCoversPayload ==
    [kind |-> "json",
     cover_groups |-> <<[countries |-> <<"jp">>,
                         covers |-> <<Cover(Text_Spine_Sides, "5"),
                                      Cover(Text_Front_Cover, "6")>>]>>]

ShotPayloads == {ScreenshotsPayload, NoScreenshotsPayload}
CoverPayloads == {CoversPayload, SpineCoversPayload}

\* The kinds a caller asks for.
AskedKinds == {"ASSET_TITLE_ID", "ASSET_SNAP_ID", "ASSET_BOXFRONT_ID", "ASSET_BOXBACK_ID"}

AssetScripts == {Script(0, Ok200), Script(0, Response(404, "json_msg", "wait"))}

GetAssetsOf(scripts, kinds, shots, covers) ==
    /\ scraper_disabled \/ cache_key # NoKey
    /\ \E asset_info_id \in kinds, script1 \in scripts :
       \E script2 \in SecondScripts(scripts, script1) :
       \E screenshots \in shots, cover_groups \in covers :
          GetAssetsReturns(asset_info_id,
                           get_assets(scraper_disabled, api_key, cache_key, candidate,
                                      disk_caches, status_dic, asset_info_id, script1,
                                      script2, screenshots, cover_groups))

NextAssets ==
    \/ NewStatusDic
    \/ SetCandidate
    \/ GetAssetsOf(AssetScripts, AskedKinds, ShotPayloads, CoverPayloads)

SpecAssets == InitRequest /\ [][NextAssets]_vars

MaxImages == 3

Captions == {<<"T", "i", "t", "l", "e">>, <<"m", "a", "p">>,
             <<"s", "u", "b", "T", "I", "T", "L", "E", "s">>}

\* json_data['screenshots']
ScreenshotLists ==
    UNION {[1..n -> {[caption |-> c, image |-> Text_http_1] : c \in Captions}] :
              n \in 0..MaxImages}

ScanTypes == {Text_Front_Cover, Text_Spine_Sides, Text_Jewel_Case}

CoverLists == UNION {[1..n -> {Cover(t, "7") : t \in ScanTypes}] : n \in 0..MaxImages}

\* json_data['cover_groups']: the covers in two groups, split at k.
CoverGroups(covers, k) ==
    <<[countries |-> <<"jp">>, covers |-> SubSeq(covers, 1, k)],
      [countries |-> <<"us">>, covers |-> SubSeq(covers, k + 1, Len(covers))]>>

CoverGroupLists ==
    UNION {{CoverGroups(covers, k) : k \in 0..Len(covers)} : covers \in CoverLists}

RetrieveSnapAssets ==
    \E screenshots \in ScreenshotLists :
        /\ Returns("_retrieve_snap_assets", screenshots,
                   _retrieve_snap_assets(scraper_disabled, api_key, candidate,
                                         candidate.scraper_platform, status_dic,
                                         Script(0, Ok200),
                                         [kind |-> "json", screenshots |-> screenshots]))
        /\ UNCHANGED disk_caches

RetrieveCoverAssets ==
    \E cover_groups \in CoverGroupLists :
        /\ Returns("_retrieve_cover_assets", cover_groups,
                   _retrieve_cover_assets(scraper_disabled, api_key, candidate,
                                          candidate.scraper_platform, status_dic,
                                          Script(0, Ok200),
                                          [kind |-> "json", cover_groups |-> cover_groups]))
        /\ UNCHANGED disk_caches

NextParse ==
    \/ RetrieveSnapAssets
    \/ RetrieveCoverAssets

SpecParse == InitRequest /\ [][NextParse]_vars


-----------------------------------------------------------------------------
(* The player-count extractors on their own, over attribute names made of   *)
(* a short text and the ' Player' / ' Players' suffix.                      *)

MaxNameLen == 3

NameChars == {"1", "4", "-"}

NameSuffixes == {<<>>, Text_Player, Text_Players}

AttributeNames ==
    {body \o suffix : body \in UNION {[1..n -> NameChars] : n \in 0..MaxNameLen},
                      suffix \in NameSuffixes}

\* The attribute in each state of its name: absent, null, or a text.
PlayerAttributes(category) ==
    {"attribute_category_id" :> JNum(category), Attribute(category, JNull)}
        \cup {Attribute(category, JStr(name)) : name \in AttributeNames}

ParseNPlayers ==
    \E attribute \in PlayerAttributes(40) :
        /\ Returns("_parse_nplayers", attribute,
                   Done(_parse_nplayers(attribute), status_dic, scraper_disabled,
                        <<>>, FALSE, Absent))
        /\ UNCHANGED disk_caches

\* The extractor on a record whose player attribute comes after another one.
ParseMetadataNPlayers ==
    \E extractor \in {"_parse_metadata_nplayers", "_parse_metadata_nplayers_online"} :
    \E attribute \in PlayerAttributes(40) \cup PlayerAttributes(38) :
        /\ Returns(extractor, attribute,
                   Done(Extract(extractor,
                                "attributes" :> JList(<<Attribute(27, JStr(<<"F", "M">>)),
                                                        attribute>>)),
                        status_dic, scraper_disabled, <<>>, FALSE, Absent))
        /\ UNCHANGED disk_caches

NextPlayers ==
    \/ ParseNPlayers
    \/ ParseMetadataNPlayers

SpecPlayers == InitRequest /\ [][NextPlayers]_vars

-----------------------------------------------------------------------------
(* The calls that can fail, with or without a credential, over every way a  *)
(* request ends after any number of rate-limit waits.  The answer of the    *)
(* user is part of every response, asked for or not.                        *)

FailureFinals ==
    Finals \cup {Response(404, "json_msg", "cancel"), Response(200, "garbage", "cancel"),
                 Response(200, "none", "cancel")}

FailureScripts == {Script(k, f) : k \in 0..(ScriptLen - 1), f \in FailureFinals}

InitDisable ==
    /\ Init
    /\ \A ns \in Namespaces, k \in CacheKeys : disk_caches[ns][k] = Absent

NextDisable ==
    \/ NewStatusDic
    \/ CheckBeforeScraping
    \/ GetCandidates(FailureScripts, {<<>>})
    \/ DownloadImage

SpecDisable == InitDisable /\ [][NextDisable]_vars

-----------------------------------------------------------------------------
(* The URL of each request as the text given to net.get_URL, with the API   *)
(* key put in as it is.  The texts the code takes from its own constants    *)
(* and numbers are one element each; the key, the query separators and the  *)
(* search term are kept character by character.                             *)

URL_games == "https://api.mobygames.com/v1/games"
URL_platforms == "https://api.mobygames.com/v1/platforms"

\* url.key is the text of the key.
URLText(url) ==
    LET tail == <<"?">> \o Text_api_key \o url.key
        game == <<URL_games, "/", ToString(url.id.v)>>
        game_platform == game \o <<"/platforms/", ToString(url.plat.v)>>
    IN  CASE url.ep = "games" ->
               <<URL_games>> \o tail \o <<"&", "format=brief", "&", "title=">> \o url.title
                  \o (IF url.plat = NoValue THEN <<>>
                      ELSE <<"&", "platform=", ToString(url.plat.v)>>)
          [] url.ep = "games/id" -> game \o tail
          [] url.ep = "games/id/platforms/p" -> game_platform \o tail
          [] url.ep = "games/id/platforms/p/screenshots" ->
               game_platform \o <<"/screenshots">> \o tail
          [] url.ep = "games/id/platforms/p/covers" -> game_platform \o <<"/covers">> \o tail
          [] url.ep = "platforms" -> <<URL_platforms>> \o tail

MaxKeyLen == 2

\* API keys as the user may have typed them into the settings.
KeyChars == {"x", "z", "&"}
KeyTexts == UNION {[1..n -> KeyChars] : n \in 0..MaxKeyLen}

\* The requests of the scraper for a candidate, with the key.
RequestURLs(key) ==
    {PlatformsURL(key)}
       \cup {SearchURL(key, SearchTerm, convert_AKL_platform_to_MobyGames(platform)) :
                platform \in SearchPlatforms}
       \cup UNION {{GameURL(key, cand), GamePlatformURL(key, cand),
                    ScreenshotsURL(key, cand, cand.scraper_platform),
                    CoversURL(key, cand, cand.scraper_platform)} :
                      cand \in {SelectedCandidate(id, rom[2]) :
                                   id \in CandidateIds, rom \in Library}}

\* scraper.py:626, the two arguments of net.get_URL.
GetURL ==
    \E key \in KeyTexts :
    \E url \in RequestURLs(key) :
        /\ Returns("get_URL", url,
                   Done([kind |-> "get_URL", url |-> URLText(url),
                         url_log |-> _clean_URL_for_log(URLText(url))],
                        status_dic, scraper_disabled, <<>>, FALSE, Absent))
        /\ UNCHANGED disk_caches

NextLog == GetURL

SpecLog == InitRequest /\ [][NextLog]_vars
-----------------------------------------------------------------------------
(* Properties.                                                             *)

Stored(caches, ns, k) == caches[ns][k].kind # "absent"

Ready == ~scraper_disabled /\ cache_key # NoKey

Succeeded(result) == result.kind \in {"list", "gamedata"}

\* C1: when the platform has no external mapping (toExternal gives the sentinel
\* 0) no GET of the search carries a platform filter, and for every mapped
\* platform every GET of the search carries platform=<code>.
C1_SentinelNeverSent ==
    last.op = "get_candidates" =>
        \A i \in DOMAIN last.log :
            last.log[i].e = "get" =>
                LET code == convert_AKL_platform_to_MobyGames(last.arg).v
                    plat == last.log[i].url.plat
                IN  IF code = DEFAULT_PLAT_MOBYGAMES
                    THEN plat.t = "none"
                    ELSE plat.t = "str" /\ plat.v = code

\* C2: for the platform of a search that has an external code, converting the
\* code back gives the platform itself or its alias target.
C2_PlatformRoundTrip ==
    (last.op = "get_candidates"
        /\ convert_AKL_platform_to_MobyGames(last.arg).v # DEFAULT_PLAT_MOBYGAMES) =>
        LET back == convert_MobyGames_platform_to_AKL_platform(
                        convert_AKL_platform_to_MobyGames(last.arg))
        IN  back = last.arg \/ back = aliasof(last.arg)

C4_MetadataHitNoNetwork ==
    [][(last'.op = "get_metadata" /\ Ready
            /\ Stored(disk_caches, CACHE_METADATA, cache_key)) =>
          /\ last'.result = disk_caches[CACHE_METADATA][cache_key]
          /\ last'.log = <<>>
          /\ UNCHANGED <<disk_caches, status_dic, scraper_disabled>>]_vars

C4_Witness ==
    /\ last.op = "get_metadata"
    /\ ~last.disabled
    /\ last.hit
    /\ last.log = <<>>
    /\ last.result.kind = "gamedata"
    /\ last.result = disk_caches[CACHE_METADATA][cache_key]

OpOf(ns) == IF ns = CACHE_METADATA THEN "get_metadata" ELSE "get_assets"

C6_DisabledNoOutbound == last.disabled => Outbound(last.log) = <<>>

\* C7: while the client is disabled, get_candidates returns no candidates,
\* get_metadata the record of defaults and get_assets the empty list; none of
\* them issues anything, touches the status or reads or writes the cache.
C7_DisabledReturnsDefaults ==
    [][(scraper_disabled /\ last'.op \in {"get_candidates", "get_metadata", "get_assets"}) =>
          /\ last'.op = "get_candidates" => last'.result = None
          /\ last'.op = "get_metadata" => last'.result = _new_gamedata_dic
          /\ last'.op = "get_assets" => last'.result = List(<<>>)
          /\ last'.log = <<>>
          /\ UNCHANGED <<status_dic, disk_caches, scraper_disabled>>]_vars

\* A disabled client asked for metadata whose entry is in the cache.
C7_Witness ==
    /\ last.op = "get_metadata"
    /\ last.disabled
    /\ cache_key # NoKey
    /\ Stored(disk_caches, CACHE_METADATA, cache_key)
    /\ last.result = _new_gamedata_dic

\* C8: once the disabled flag is set, no call clears it.
C8_DisabledIsIrreversible == [][scraper_disabled => scraper_disabled']_vars

\* check_before_scraping with a credential, on a client the user disabled.
C8_Witness ==
    /\ last.op = "check_before_scraping"
    /\ last.disabled
    /\ api_key # ""
    /\ scraper_disabled

\* C9: check_before_scraping sets the disabled flag exactly when the API key
\* is empty, and with a key it changes neither the flag nor the status; a
\* get_candidates that follows the check of an empty key returns nothing,
\* issues nothing and leaves the status as it was.
C9_CheckReady ==
    [][/\ last'.op = "check_before_scraping" =>
             IF api_key = ""
             THEN scraper_disabled' /\ ~status_dic'.status
             ELSE scraper_disabled' = scraper_disabled /\ status_dic' = status_dic
       /\ (last.op = "check_before_scraping" /\ api_key = ""
             /\ last'.op = "get_candidates") =>
             /\ last'.result = None
             /\ last'.log = <<>>
             /\ status_dic' = status_dic]_vars

C9_Witness ==
    /\ last.op = "get_candidates"
    /\ api_key = ""
    /\ last.disabled
    /\ last.result = None
    /\ status_dic.dialog = "DIALOG"

AllRateLimited(log) ==
    /\ \A i \in DOMAIN log : log[i].e = "get" => log[i].code = 429
    /\ \A i \in DOMAIN log : log[i].e = "prompt" => log[i].arg = "wait"

\* C10: a request issues at most RETRY_THRESHOLD + 1 GETs, all of the same
\* URL, numbered by the retry counter; when every response is 429 and the
\* user waits at every prompt there are exactly RETRY_THRESHOLD prompts and
\* retries, and the call ends without result, status False, HTTP 429 message.
C10_RequestIsBounded ==
    last.op \in {"get_candidates", "debug_get_platforms"} =>
        LET gets == Gets(last.log)
            prompts == Prompts(last.log)
        IN  /\ Len(gets) <= RETRY_THRESHOLD + 1
            /\ \A i \in DOMAIN gets : gets[i].url = gets[1].url /\ gets[i].retry = i - 1
            /\ (gets # <<>> /\ AllRateLimited(last.log)) =>
                  /\ Len(gets) = RETRY_THRESHOLD + 1
                  /\ Len(prompts) = RETRY_THRESHOLD
                  /\ last.result = None
                  /\ ~status_dic.status
                  /\ status_dic.msg.m = "http"
                  /\ status_dic.msg.code = 429

C10_Witness ==
    /\ last.op = "debug_get_platforms"
    /\ Len(Gets(last.log)) = RETRY_THRESHOLD + 1
    /\ AllRateLimited(last.log)
    /\ ~status_dic.status
    /\ status_dic.msg.code = 429


-----------------------------------------------------------------------------
(* Properties of the rate limiter and of the requests.                     *)

Max(a, b) == IF a >= b THEN a ELSE b

\* The seconds left of the rate window when elapsed seconds of it are over.
Remaining(elapsed) == Max(0, WINDOW_SECONDS - elapsed)

\* C11: after a 429 the timer given to the prompt is the time left of the
\* 960 s window, and the wait elected by the user is given the time left
\* when the user answered: 960 s for an answer at once, 0 once the window is
\* over, never a negative duration.
C11_WaitsForTheRemainder ==
    \A i \in DOMAIN last.log :
        /\ last.log[i].e = "prompt" => last.log[i].ms = Remaining(0) * 1000
        /\ (last.log[i].e = "wait" /\ last.log[i].arg = "window") =>
              /\ last.log[i].ms >= 0
              /\ last.log[i].ms = Remaining(last.log[i - 1].took) * 1000

IsCancel(ev) == ev.e = "prompt" /\ ev.arg = "cancel"

\* C12: a prompt answered by cancel is the last thing the call does: the
\* request is not retried and no further request is made, the call returns
\* None, the status is False with the cancel dialog, and the scraper is
\* disabled when the call returns.
C12_CancelEndsTheCall ==
    [][\A i \in DOMAIN last'.log :
          IsCancel(last'.log[i]) =>
             /\ i = Len(last'.log)
             /\ last'.result = None
             /\ ~status_dic'.status
             /\ status_dic'.dialog = "CANCEL"
             /\ scraper_disabled']_vars

\* The user cancels the second request of get_metadata on an enabled client.
C12_Witness ==
    /\ last.op = "get_metadata"
    /\ ~last.disabled
    /\ Len(Gets(last.log)) = 2
    /\ IsCancel(last.log[Len(last.log)])
    /\ scraper_disabled
    /\ status_dic.dialog = "CANCEL"

IsRequest(op) == op \in {"get_candidates", "debug_get_platforms"}

\* C13: a prompt follows a GET answered by 429 with the retry counter below
\* RETRY_THRESHOLD, and nothing else; a prompt answered by wait is followed
\* by the wait and one GET of the same URL with the counter one higher; and
\* when that GET returns 200 with valid JSON and the status was successful,
\* the call ends there with the decoded body and the status unchanged.
C13_PromptAndRetry ==
    [][IsRequest(last'.op) =>
          LET log == last'.log
          IN  \A i \in DOMAIN log :
                 /\ log[i].e = "prompt" =>
                       /\ i >= 3
                       /\ log[i - 2].e = "get"
                       /\ log[i - 2].code = 429
                       /\ log[i - 2].retry < RETRY_THRESHOLD
                       /\ log[i - 2].url = log[i].url
                       /\ log[i - 2].retry = log[i].retry
                 /\ (log[i].e = "get" /\ log[i].code = 429
                        /\ log[i].retry < RETRY_THRESHOLD) =>
                       /\ i + 2 <= Len(log)
                       /\ log[i + 2].e = "prompt"
                 /\ (log[i].e = "prompt" /\ log[i].arg = "wait") =>
                       /\ i + 4 <= Len(log)
                       /\ log[i + 1].e = "wait"
                       /\ log[i + 1].arg = "window"
                       /\ log[i + 2].e = "wait"
                       /\ log[i + 3].e = "get"
                       /\ log[i + 3].url = log[i].url
                       /\ log[i + 3].retry = log[i].retry + 1
                       /\ Len(SelectSeq(log, LAMBDA ev : ev.e = "get"
                                                 /\ ev.retry = log[i].retry + 1)) = 1
                       /\ (log[i + 3].code = 200 /\ log[i + 3].arg = "json"
                              /\ status_dic.status) =>
                             /\ i + 4 = Len(log)
                             /\ Succeeded(last'.result) \/ last'.result.kind = "json"
                             /\ status_dic' = status_dic]_vars

\* The window was over when the user chose to wait, and the retry succeeded.
C13_Witness ==
    /\ last.op = "debug_get_platforms"
    /\ Len(Prompts(last.log)) = 1
    /\ Prompts(last.log)[1].arg = "wait"
    /\ Prompts(last.log)[1].took = WINDOW_SECONDS
    /\ Len(Gets(last.log)) = 2
    /\ last.result.kind = "json"
    /\ status_dic.status

\* C14: a GET answered by a code other than 200 and 429 ends the request: it
\* is the only GET unless waits went before it, no prompt follows, the call
\* returns None with status False and a message made of the code and of the
\* message decoded from the body, or of the generic text when the body does
\* not decode; the disabled flag stays as it was.
C14_OtherCodesAreTerminal ==
    IsRequest(last.op) =>
        \A i \in DOMAIN last.log :
            (last.log[i].e = "get" /\ last.log[i].code \notin {200, 429}) =>
                /\ i + 1 = Len(last.log)
                /\ Len(Gets(last.log)) = last.log[i].retry + 1
                /\ Len(Prompts(last.log)) = last.log[i].retry
                /\ last.result = None
                /\ ~status_dic.status
                /\ status_dic.msg.m = "http"
                /\ status_dic.msg.code = last.log[i].code
                /\ status_dic.msg.err =
                      IF last.log[i].arg = "json_msg" THEN "api" ELSE "generic"
                /\ scraper_disabled = last.disabled

\* A 500 without a body, at once: one GET, the generic message.
C14_Witness ==
    /\ last.op = "debug_get_platforms"
    /\ Len(Gets(last.log)) = 1
    /\ Gets(last.log)[1].code = 500
    /\ Prompts(last.log) = <<>>
    /\ status_dic.msg.err = "generic"
    /\ ~scraper_disabled

IsOutbound(ev) == ev.e \in {"get", "download"}

\* C15: whatever the operations, each outbound call (GET or download) comes
\* straight after a call of _wait_for_API_request and no sooner than the
\* default interval after the outbound call before it.
C15_OutboundCallsAreSpaced ==
    /\ \A i \in DOMAIN last.log :
          IsOutbound(last.log[i]) => (i > 1 /\ last.log[i - 1].e = "wait")
    /\ \A k \in DOMAIN last.gaps : last.gaps[k] * 1000 >= DEFAULT_WAIT_MS

\* C16: every outbound call, GET or download, whatever its outcome, is
\* followed by the update of self.last_http_call before anything else.
C16_StampAfterEveryCall ==
    \A i \in DOMAIN last.log :
        IsOutbound(last.log[i]) =>
            (i < Len(last.log) /\ last.log[i + 1].e = "stamp")

\* The transfers of a download_image call: one, and a second one exactly
\* when the file is missing after the first; never a third.
C17_Attempts ==
    last.op = "download_image" =>
        /\ Len(Downloads(last.log)) = IF last.arg = "missing" THEN 2 ELSE 1
        /\ Len(Gets(last.log)) = 0
        /\ last.log[1].e = "wait"
        /\ last.log[2].e = "download"
        /\ Len(last.log) > 2 =>
              /\ Len(last.log) = 4
              /\ last.log[3].e = "wait"
              /\ last.log[3].ms = RETRY_DELAY_MS
              /\ last.log[4].e = "download"

\* C17: download_image transfers once, and once more exactly when the file
\* is missing after the first transfer, never a third time; the second
\* transfer starts no sooner than 5000 ms after the first.
C17_RetryOnceAfterDelay ==
    /\ C17_Attempts
    /\ (last.op = "download_image" /\ Len(last.gaps) = 2) =>
          last.gaps[2] * 1000 >= RETRY_DELAY_MS

\* What the scheme rewriting is to give: https:// for http://, the rest and
\* every other URL as they are.
Secured(url) ==
    IF StartsWith(url, Text_scheme_http)
    THEN Text_scheme_https \o SubSeq(url, Len(Text_scheme_http) + 1, Len(url))
    ELSE url

\* C18: resolve_asset_URL returns an http:// URL with https:// and the rest
\* unchanged, returns an https:// URL (and so its own result) unchanged, and
\* returns as second value the redacted form of the URL it returns.
C18_OnlyInsecureSchemeRewritten ==
    last.op = "resolve_asset_URL" =>
        /\ last.result.url = Secured(last.arg)
        /\ Secured(last.result.url) = last.result.url
        /\ last.result.url_log = _clean_URL_for_log(last.result.url)

\* The parameters with the value of each api_key parameter replaced.
RECURSIVE Redacted(_)
Redacted(params) ==
    IF params = <<>> THEN <<>>
    ELSE <<[Head(params) EXCEPT !.value =
               IF Head(params).name = <<"a", "p", "i", "_", "k", "e", "y">>
               THEN Text_stars ELSE @]>> \o Redacted(Tail(params))

\* C19: in the redacted URL the value of each api_key parameter, last of the
\* query or not, is ***, and every other parameter, one whose name ends in
\* api_key included, and the rest of the URL are as given.
C19_OnlyTheKeyIsRedacted ==
    last.op = "_clean_URL_for_log" =>
        last.result.text = QueryURL(Redacted(last.arg))

SameIgnoringCase(a, b) ==
    Len(a) = Len(b) /\ \A i \in DOMAIN a : LowerChar(a[i]) = LowerChar(b[i])

OccursIgnoringCase(needle, haystack) ==
    \E i \in 0..(Len(haystack) - Len(needle)) :
        SameIgnoringCase(needle, SubSeq(haystack, i + 1, i + Len(needle)))

\* C20: the order of a candidate is 1, plus 2 when its title equals the
\* search term but for case, plus 1 when the search term occurs in the title
\* but for case; so it is 1, 2 or 4, and a title equal to the term has at
\* least 2 more than any other title in which the term occurs as well.
C20_ScoreOfATitle ==
    last.op = "Score" =>
        LET title == last.arg.title
            search_term == last.arg.search_term
        IN  /\ last.result.order =
                  1 + (IF SameIgnoringCase(title, search_term) THEN 2 ELSE 0)
                    + (IF OccursIgnoringCase(search_term, title) THEN 1 ELSE 0)
            /\ last.result.order \in {1, 2, 4}
            /\ SameIgnoringCase(title, search_term) =>
                  \A other \in Texts :
                      (~SameIgnoringCase(other, search_term)
                          /\ (OccursIgnoringCase(search_term, other)
                                <=> OccursIgnoringCase(search_term, title))) =>
                         last.result.order >= Score(other, search_term) + 2

\* A title that equals the term but for case.
C20_Witness ==
    /\ last.op = "Score"
    /\ last.arg.title = <<"a", "b">>
    /\ last.arg.search_term = <<"A", "b">>
    /\ last.result.order = 4

-----------------------------------------------------------------------------
(* Ranking of the candidates.                                               *)

Bijections(n) == {p \in [1..n -> 1..n] : \A i, j \in 1..n : p[i] = p[j] => i = j}

\* The search got its list of games from the API.
SearchAnswered(obs) ==
    /\ obs.op = "_search_candidates"
    /\ Len(Gets(obs.log)) = 1
    /\ Gets(obs.log)[1].code = 200

\* C21: the candidates of a search are the games of the response, one
\* candidate per game, in non-increasing order of score, and candidates of
\* the same score are in the order of the response.
C21_StableRanking ==
    [][(SearchAnswered(last') /\ status_dic.status) =>
          LET games == last'.arg
              out == last'.result.items
          IN  /\ last'.result.kind = "list"
              /\ Len(out) = Len(games)
              /\ \E p \in Bijections(Len(games)) :
                    /\ \A k \in DOMAIN out :
                          /\ out[k].id = PyInt(games[p[k]].game_id)
                          /\ out[k].order = Score(games[p[k]].title, SearchTerm)
                    /\ \A k, l \in DOMAIN out :
                          k < l => /\ out[k].order >= out[l].order
                                   /\ out[k].order = out[l].order => p[k] < p[l]]_vars

\* Three games, two of the same score with a higher one behind them.
C21_Witness ==
    /\ SearchAnswered(last)
    /\ last.arg = <<CatalogGame(3), CatalogGame(2), CatalogGame(3)>>
    /\ last.result.kind = "list"
    /\ last.result.items[1].id = PyInt(2)

IsExact(game) == SameIgnoringCase(game.title, SearchTerm)

FirstExact(games) ==
    games[CHOOSE i \in DOMAIN games :
             IsExact(games[i]) /\ \A j \in 1..(i - 1) : ~IsExact(games[j])]

-----------------------------------------------------------------------------
(* The field extractors.                                                    *)

\* The key each extractor reads and the default of its field.
FieldOf ==
    [_parse_metadata_genre |-> [key |-> "genres", default |-> JConst("DEFAULT_META_GENRE")],
     _parse_metadata_plot |->
        [key |-> "description", default |-> JConst("DEFAULT_META_PLOT")],
     _parse_metadata_rating |-> [key |-> "moby_score", default |-> JNull],
     _parse_metadata_developer |-> [key |-> "releases", default |-> JNull],
     _parse_metadata_esrb |-> [key |-> "ratings", default |-> JConst("DEFAULT_META_ESRB")],
     _parse_metadata_pegi |-> [key |-> "ratings", default |-> JStr(<<>>)],
     _parse_metadata_nplayers |->
        [key |-> "attributes", default |-> JConst("DEFAULT_META_NPLAYERS")],
     _parse_metadata_nplayers_online |->
        [key |-> "attributes", default |-> JConst("DEFAULT_META_NPLAYERS")],
     _parse_metadata_tags |-> [key |-> "attributes", default |-> JList(<<>>)]]

\* The field is absent, null, or holds items none of which has a sub-field.
FieldUnusable(json_data, key) ==
    \/ ~Has(json_data, key)
    \/ json_data[key].t = "null"
    \/ /\ json_data[key].t = "list"
       /\ json_data[key].items # <<>>
       /\ \A i \in DOMAIN json_data[key].items : json_data[key].items[i] = EmptyDict

\* C23: an extractor given a record in which its field is absent, null, or
\* without the expected sub-fields does not raise and returns the default of
\* the field.
C23_ExtractorsNeverRaise ==
    (last.op \in DOMAIN FieldOf /\ FieldUnusable(last.arg, FieldOf[last.op].key)) =>
        last.result = Value(FieldOf[last.op].default)

-----------------------------------------------------------------------------
(* Failures and the cache.                                                  *)

IsFetch(op) == op \in {"get_candidates", "get_metadata", "get_assets"}

\* A GET that gave no body, a code other than 200, or a body that is no JSON.
FailedGet(ev) == ev.e = "get" /\ (ev.code # 200 \/ ev.arg \in {"none", "garbage"})

\* The last GET of a search, metadata or asset call failed: the call returns
\* None and the caller's status is False, with a message unless the user
\* cancelled at the prompt.
C24_RequestFailuresSurface ==
    (IsFetch(last.op) /\ Gets(last.log) # <<>>
        /\ FailedGet(Gets(last.log)[Len(Gets(last.log))])) =>
        /\ last.result = None
        /\ ~status_dic.status
        /\ \/ status_dic.msg.m \in {"http", "network", "json"}
           \/ IsCancel(last.log[Len(last.log)])

\* C24: a failed request of search, metadata or assets ends the operation
\* with no result and a False status with a message, and a download_image
\* that leaves no file behind after its last transfer is reported to the
\* caller as a failure.
C24_NoFailureSwallowed ==
    /\ C24_RequestFailuresSurface
    /\ (last.op = "download_image" /\ ~last.result.exists) =>
          (last.result = None \/ ~status_dic.status)

-----------------------------------------------------------------------------
(* The platform table.                                                      *)

\* The codes the table gives for a compact name: one, or none.
CodesOf(compact_name) ==
    {AKL_compact_platform_MobyGames_items[i][2] :
        i \in {j \in DOMAIN AKL_compact_platform_MobyGames_items :
                  AKL_compact_platform_MobyGames_items[j][1] = compact_name}}

\* C25: for every platform of the registry the conversion gives the code of
\* the table for the platform's compact name when it has one; otherwise the
\* code of the table for the platform's alias target when it has an alias
\* and the target has a code, without following the target's own alias;
\* otherwise the sentinel 0.
C25_ToExternalIsTotal ==
    last.op = "convert_AKL_platform_to_MobyGames" =>
        /\ last.result.t = "int"
        /\ IF CodesOf(last.arg) # {}
           THEN CodesOf(last.arg) = {last.result.v}
           ELSE IF aliasof(last.arg) # NoAlias /\ CodesOf(aliasof(last.arg)) # {}
           THEN CodesOf(aliasof(last.arg)) = {last.result.v}
           ELSE last.result.v = 0

\* A platform without a code of its own whose alias target has one.
C25_Witness ==
    /\ last.op = "convert_AKL_platform_to_MobyGames"
    /\ last.arg = "genesis"
    /\ last.result = PyInt(16)

CacheOf(op) == IF op = "get_metadata" THEN CACHE_METADATA ELSE CACHE_INTERNAL

\* The call ended on a request that failed.
RequestFailed(log) == Gets(log) # <<>> /\ FailedGet(Gets(log)[Len(Gets(log))])

GoodGets(log) ==
    SelectSeq(log, LAMBDA ev : ev.e = "get" /\ ev.code = 200 /\ ev.arg = "json")

\* C26: a get_metadata or get_assets call one of whose requests failed
\* returns None with a False status and leaves every cache as it was; a
\* cache changes only in a call whose two requests both succeeded, and then
\* only by a new entry for the cache key in the namespace of the call.
C26_FailedFetchLeavesCaches ==
    [][(last'.op \in {"get_metadata", "get_assets"}) =>
          /\ RequestFailed(last'.log) =>
                /\ disk_caches' = disk_caches
                /\ last'.result = None
                /\ ~status_dic'.status
          /\ disk_caches' # disk_caches =>
                /\ ~RequestFailed(last'.log)
                /\ Len(GoodGets(last'.log)) = 2
                /\ \A ns \in Namespaces, k \in CacheKeys :
                      disk_caches'[ns][k] # disk_caches[ns][k] =>
                         /\ ns = CacheOf(last'.op)
                         /\ k = cache_key
                         /\ disk_caches[ns][k] = Absent]_vars

\* The second request of get_metadata failed and nothing was stored.
C26_Witness ==
    /\ last.op = "get_metadata"
    /\ Len(Gets(last.log)) = 2
    /\ FailedGet(Gets(last.log)[2])
    /\ cache_key # NoKey
    /\ disk_caches[CACHE_METADATA][cache_key] = Absent

\* C27: get_metadata on a cache miss asks for the game record first and for
\* the record of the game on the candidate's platform after it, the second
\* only once the first request succeeded; when both succeed the record made
\* of the two is stored in the metadata cache under the cache key.
C27_MetadataRequestsInSequence ==
    [][(last'.op = "get_metadata" /\ ~scraper_disabled
           /\ ~MetadataCacheHit(disk_caches, cache_key)) =>
          LET gets == Gets(last'.log)
              first == GameURL(api_key, candidate)
              second == GamePlatformURL(api_key, candidate)
          IN  /\ gets # <<>>
              /\ gets[1].url = first
              /\ second.plat = Format(convert_AKL_platform_to_MobyGames(candidate.platform))
              /\ \A i \in DOMAIN gets :
                    /\ gets[i].url \in {first, second}
                    /\ gets[i].url = second =>
                          /\ \E j \in 1..(i - 1) :
                                /\ gets[j].url = first
                                /\ gets[j].code = 200
                                /\ gets[j].arg = "json"
                          /\ \A j \in i..Len(gets) : gets[j].url = second
              /\ (Len(GoodGets(last'.log)) = 2 /\ status_dic.status) =>
                    /\ last'.result = ParseGamedata(GamePayload(candidate),
                                                    GamePayload(candidate))
                    /\ disk_caches' = [disk_caches EXCEPT
                                          ![CACHE_METADATA][cache_key] = last'.result]]_vars

\* Both requests were made and answered, and the record is in the cache.
C27_Witness ==
    /\ last.op = "get_metadata"
    /\ ~last.hit
    /\ Len(GoodGets(last.log)) = 2
    /\ cache_key # NoKey
    /\ disk_caches[CACHE_METADATA][cache_key] = last.result
    /\ last.result.kind = "gamedata"

-----------------------------------------------------------------------------
(* Assets.                                                                  *)

\* The supersets the responses give: the screenshots, then the covers.
Supersets ==
    {SnapRecords(shots.screenshots)
        \o AllCoverRecords(CoversInOrder(covers.cover_groups)).list :
            shots \in ShotPayloads, covers \in CoverPayloads}

C29_ScreenshotClassification ==
    last.op = "_retrieve_snap_assets" =>
        /\ last.result.kind = "list"
        /\ Len(last.result.items) = Len(last.arg)
        /\ \A i \in DOMAIN last.arg :
              /\ last.result.items[i].display_name = last.arg[i].caption
              /\ last.result.items[i].url = last.arg[i].image
              /\ last.result.items[i].asset_ID =
                    IF OccursIgnoringCase(<<"t", "i", "t", "l", "e">>, last.arg[i].caption)
                    THEN "ASSET_TITLE_ID" ELSE "ASSET_SNAP_ID"

\* A caption with the word in capitals between two without it.
C29_Witness ==
    /\ last.op = "_retrieve_snap_assets"
    /\ Len(last.arg) = 3
    /\ last.arg[2].caption = <<"s", "u", "b", "T", "I", "T", "L", "E", "s">>
    /\ last.result.items[1].asset_ID = "ASSET_SNAP_ID"
    /\ last.result.items[2].asset_ID = "ASSET_TITLE_ID"
    /\ last.result.items[3].asset_ID = "ASSET_SNAP_ID"

\* The kinds of the table for a scan type: one, or none.
KindsOf(scan_of) ==
    {asset_name_mapping_items[i][2] :
        i \in {j \in DOMAIN asset_name_mapping_items :
                  asset_name_mapping_items[j][1] = Lower(scan_of)}}

\* The kinds of the records of a cover response that was parsed to its end.
C30_KindsWhenEmitted ==
    (last.op = "_retrieve_cover_assets" /\ last.result.kind = "list") =>
        LET covers == last.arg[1].covers \o last.arg[2].covers
        IN  /\ Len(last.result.items) = Len(covers)
            /\ \A i \in DOMAIN covers :
                  IF KindsOf(covers[i].scan_of) # {}
                  THEN KindsOf(covers[i].scan_of) = {last.result.items[i].asset_ID}
                  ELSE /\ i > 1
                       /\ last.result.items[i].asset_ID = last.result.items[i - 1].asset_ID

\* C30: every cover of the response gives a record, in the order of the
\* groups and of the covers in them; its kind is the table's kind for the
\* lower-cased scan type, and for a scan type that is not in the table the
\* kind of the record before it, in the same group or in the one before.
C30_CoverClassification ==
    last.op = "_retrieve_cover_assets" =>
        LET covers == last.arg[1].covers \o last.arg[2].covers
        IN  /\ last.result.kind = "list"
            /\ Len(last.result.items) = Len(covers)
            /\ \A i \in DOMAIN covers :
                  /\ last.result.items[i].url = covers[i].image
                  /\ IF KindsOf(covers[i].scan_of) # {}
                     THEN KindsOf(covers[i].scan_of) = {last.result.items[i].asset_ID}
                     ELSE i > 1 =>
                             last.result.items[i].asset_ID = last.result.items[i - 1].asset_ID


-----------------------------------------------------------------------------
(* The player count of an attribute name.                                   *)

\* s is one or more digits.
IsNumber(s) == Len(s) >= 1 /\ \A i \in 1..Len(s) : s[i] \in Digits

\* name is text followed by one of the suffixes, or by nothing.
Bodies(name) ==
    {SubSeq(name, 1, Len(name) - Len(suffix)) :
        suffix \in {x \in NameSuffixes :
                      /\ Len(name) >= Len(x)
                      /\ SubSeq(name, Len(name) - Len(x) + 1, Len(name)) = x}}

\* The places of name where a digit, a hyphen and a digit follow each other.
RangesIn(name) ==
    {i \in 1..Len(name) - 2 :
        name[i] \in Digits /\ name[i + 1] = "-" /\ name[i + 2] \in Digits}

DefaultPlayers == Value(JConst("DEFAULT_META_NPLAYERS"))

\* What the claim says of a player attribute and the result for it.
PlayersAsClaimed(attribute, result) ==
    /\ result.kind = "value"
    /\ (~Has(attribute, "attribute_name") \/ attribute["attribute_name"] = JNull
           \/ attribute["attribute_name"] = JStr(<<>>)) => result = DefaultPlayers
    /\ Has(attribute, "attribute_name") /\ attribute["attribute_name"].t = "str" =>
         LET name == attribute["attribute_name"].v
         IN  /\ \A number \in Bodies(name) :
                   IsNumber(number) /\ Len(number) < Len(name) =>
                       result = Value(JStr(number))
             /\ \A body \in Bodies(name) :
                \A i \in 1..Len(body) :
                   /\ IsNumber(SubSeq(body, 1, i - 1))
                   /\ body[i] = "-"
                   /\ IsNumber(SubSeq(body, i + 1, Len(body)))
                   => result = Value(JStr(SubSeq(body, i + 1, Len(body))))
             /\ (RangesIn(name) = {} /\ \A body \in Bodies(name) : ~IsNumber(body))
                   => result = DefaultPlayers

\* C31: the player count of an attribute name that is a number followed by
\* ' Player' or ' Players' is that number, of a range like '1-4 Players' its
\* upper bound, of an absent, empty or non-matching name the default; the
\* extraction does not raise, whatever the name.
C31_PlayerCountOfAName ==
    /\ last.op = "_parse_nplayers" => PlayersAsClaimed(last.arg, last.result)
    /\ (last.op = "_parse_metadata_nplayers"
          /\ last.arg["attribute_category_id"] = JNum(40))
          => PlayersAsClaimed(last.arg, last.result)
    /\ (last.op = "_parse_metadata_nplayers_online"
          /\ last.arg["attribute_category_id"] = JNum(38))
          => PlayersAsClaimed(last.arg, last.result)

C31_Witness ==
    /\ last.op = "_parse_metadata_nplayers"
    /\ last.arg = Attribute(40, JStr(<<"1", "-", "4">> \o Text_Players))
    /\ last.result = Value(JStr(<<"4">>))

-----------------------------------------------------------------------------
(* How the scraper gets disabled.                                           *)

\* obs is a check_before_scraping of a scraper without an API key.
CheckedWithoutKey(obs) == obs.op = "check_before_scraping" /\ api_key = ""

\* The call of obs ended with the user cancelling at the prompt of a 429.
CancelledAtPrompt(obs) ==
    /\ Len(obs.log) >= 4
    /\ obs.log[Len(obs.log)].e = "prompt"
    /\ obs.log[Len(obs.log)].arg = "cancel"
    /\ obs.log[Len(obs.log) - 2].e = "get"
    /\ obs.log[Len(obs.log) - 2].code = 429

\* The call of obs failed some other way: the retries were used up, another
\* status than 200, no response, a body that is no JSON, a file not there.
FailedOtherwise(obs) ==
    \/ /\ obs.op = "get_candidates"
       /\ Gets(obs.log) # <<>>
       /\ LET get == Gets(obs.log)[Len(Gets(obs.log))]
          IN  \/ get.code = 429 /\ get.retry = RETRY_THRESHOLD
              \/ get.code \notin {200, 429}
              \/ get.code = 200 /\ get.arg \in {"none", "garbage"}
    \/ obs.op = "download_image" /\ ~obs.result.exists

\* C32: the scraper gets disabled only by check_before_scraping without an
\* API key or by the user cancelling at the prompt of a 429; a call that
\* fails any other way leaves it enabled, and get_candidates on an enabled
\* scraper sends its request.
C32_DisabledOnlyByKeyOrCancel ==
    [][/\ (~scraper_disabled /\ scraper_disabled')
            => (CheckedWithoutKey(last') \/ CancelledAtPrompt(last'))
       /\ (~scraper_disabled /\ FailedOtherwise(last')) => ~scraper_disabled'
       /\ (~scraper_disabled /\ last'.op = "get_candidates") => Gets(last'.log) # <<>>
      ]_vars

\* The retries of a search were used up, and the scraper is still enabled.
C32_Witness ==
    /\ last.op = "get_candidates"
    /\ Len(Gets(last.log)) = RETRY_THRESHOLD + 1
    /\ \A i \in DOMAIN Gets(last.log) : Gets(last.log)[i].code = 429
    /\ status_dic.status = FALSE
    /\ ~last.disabled
    /\ ~scraper_disabled

-----------------------------------------------------------------------------
(* The URL of a request in the log.                                         *)

\* needle occurs in haystack.
Occurs(needle, haystack) ==
    \E i \in 0..(Len(haystack) - Len(needle)) :
        SubSeq(haystack, i + 1, i + Len(needle)) = needle

\* C33: the URL handed to net.get_URL for the log is the same whatever the
\* API key is (it is the URL of the same request made with the key ***), and
\* the key does not occur in it.
C33_LogURLIndependentOfKey ==
    last.op = "get_URL" =>
        /\ last.result.url_log = URLText([last.arg EXCEPT !.key = Text_stars])
        /\ last.arg.key # <<>> => ~Occurs(last.arg.key, last.result.url_log)

\* The same for a key in which no "&" occurs.
C33_PlainKeyIsRedacted ==
    (last.op = "get_URL" /\ ~Occurs(<<"&">>, last.arg.key)) =>
        /\ last.result.url_log = URLText([last.arg EXCEPT !.key = Text_stars])
        /\ last.arg.key # <<>> => ~Occurs(last.arg.key, last.result.url_log)

-----------------------------------------------------------------------------
(* A call all of whose responses are good, and the status it was given.     *)

\* The call of obs went to the network, and every response to it was a 200
\* with valid JSON.
AllResponsesGood(obs) ==
    /\ IsFetch(obs.op)
    /\ ~obs.disabled
    /\ Gets(obs.log) # <<>>
    /\ GoodGets(obs.log) = Gets(obs.log)

\* The call of obs returned its result, and an entry is cached for the key
\* when the call is one that caches.
ReturnedAndCached(obs, caches) ==
    /\ obs.result # None
    /\ obs.op \in {"get_metadata", "get_assets"} =>
          caches[CacheOf(obs.op)][cache_key] # Absent

\* C34: a search, metadata or asset call that went to the network and got
\* nothing but 200 responses with valid JSON returns its result and caches
\* it, whatever the status dictionary held when the call began.
C34_OutcomeIndependentOfStatus ==
    AllResponsesGood(last) => ReturnedAndCached(last, disk_caches)

\* The same for a call that is given a status dictionary that holds True.
C34_GoodCallOnFreshStatus ==
    [][(status_dic.status /\ AllResponsesGood(last'))
          => ReturnedAndCached(last', disk_caches')]_vars

\* With a status that holds False, the call returns None after its first
\* request and caches nothing.
C34_StaleStatusFailsTheCall ==
    [][(~status_dic.status /\ AllResponsesGood(last'))
          => /\ last'.result = None
             /\ Len(Gets(last'.log)) = 1
             /\ disk_caches' = disk_caches]_vars

-----------------------------------------------------------------------------
(* Cover responses of every shape.                                          *)

\* The kinds the table gives, None among them.
TableKinds == {asset_name_mapping_items[i][2] : i \in DOMAIN asset_name_mapping_items}

\* C35: for every list of cover groups, one whose first cover has a scan
\* type that is not in the table included, _retrieve_cover_assets returns a
\* list of records and does not raise, and the kind of every record is one
\* the table gives.
C35_CoverRetrievalIsTotal ==
    last.op = "_retrieve_cover_assets" =>
        /\ last.result.kind = "list"
        /\ \A i \in DOMAIN last.result.items :
              last.result.items[i].asset_ID \in TableKinds

\* A response that is parsed to its end gives records of the table's kinds.
C35_KindsOfTheTable ==
    (last.op = "_retrieve_cover_assets" /\ last.result.kind = "list") =>
        \A i \in DOMAIN last.result.items : last.result.items[i].asset_ID \in TableKinds

\* The call raises exactly when the first cover of the response has a scan
\* type that is not in the table.
C35_RaisesOnUnknownFirstCover ==
    last.op = "_retrieve_cover_assets" =>
        LET covers == last.arg[1].covers \o last.arg[2].covers
        IN  last.result.kind # "list" <=> (covers # <<>> /\ KindsOf(covers[1].scan_of) = {})
====
